---- MODULE Spec2Model ----
(***************************************************************************)
(* NetworkController (src/ui/pages/home/home.container.js, lines 206-1371) *)
(* as a state machine.  Every public method is one action; a method that   *)
(* awaits JSON-RPC responses is split at its await: the part up to the     *)
(* await, and the part from the settling of the awaited promise to the     *)
(* return.  Every operation computes the trace of the observable steps it  *)
(* takes, in order, each with a snapshot of the stores at that step;       *)
(* lastCall keeps the steps of the last call.                              *)
(***************************************************************************)
EXTENDS Integers, Sequences, FiniteSets, TLC

VARIABLES
    providerStore,              \* ObservableStore<ProviderConfiguration>
    previousProviderStore,      \* ObservableStore<ProviderConfiguration>
    networkIdStore,             \* ObservableStore<NetworkId | null>
    networkStatusStore,         \* ObservableStore<NetworkStatus>
    networkDetails,             \* ObservableStore<NetworkDetails>
    networkConfigurationsStore, \* ObservableStore<NetworkConfigurations>
    _provider,                  \* the live provider (a client number, 0 = null)
    _blockTracker,              \* the live block tracker (a client number, 0 = null)
    _providerProxy,             \* [id, target], id 0 = null
    _blockTrackerProxy,         \* [id, target], id 0 = null
    listeners,                  \* messenger: probes subscribed to NetworkDidChange
    probes,                     \* the lookupNetwork calls made so far, by number
    clients,                    \* number of createNetworkClient calls made so far
    networkClient,              \* what the last createNetworkClient call was given
    proxiesCreated,             \* number of proxy objects created so far
    uuids,                      \* number of uuid() values minted so far
    eipCalls,                   \* getEIP1559Compatibility calls awaiting their block
    didChanges,                 \* number of NetworkDidChange events published so far
    lastSwitch,                 \* the probe the last switch started, and what it computed
    lastCall,                   \* the steps of the last call, the probe that returned in it
    settled,                    \* what the requests of the probe that returned in the
                                \* last call settled to (recorded under SpecProbe)
    everCalled                  \* what has happened since construction: calls of
                                \* initializeProvider and of the switching methods,
                                \* clients built, requests sent (recorded under
                                \* SpecSinceConstruction)

vars == <<providerStore, previousProviderStore, networkIdStore,
          networkStatusStore, networkDetails, networkConfigurationsStore,
          _provider, _blockTracker, _providerProxy, _blockTrackerProxy,
          listeners, probes, clients, networkClient, proxiesCreated, uuids, eipCalls,
          didChanges, lastSwitch, lastCall, settled, everCalled>>

----------------------------------------------------------------------------
\* Bounds of the model.

\* createNetworkClient calls (initializeProvider plus switches) in one run
MaxClients == 2
\* lookupNetwork calls that reach their await in one run
MaxProbes == 2
\* network configurations minted by uuid() in one run
MaxConfigs == 1
\* getEIP1559Compatibility calls awaiting their block at one time
MaxEipCalls == 1
\* network configurations minted in the specification of the registry alone
MaxEntries == 2

----------------------------------------------------------------------------
\* Values.

Undefined == "undefined"

\* NetworkId is a string; a string is modelled as the tuple of its characters
\* so that assertNetworkId can test them.  null is the one-element tuple
\* <<"null">>, which is no string of characters.
Null == <<"null">>

Digits == {"0", "1", "2", "3", "4", "5", "6", "7", "8", "9"}

\* NetworkStatus (shared/constants/network)
Unknown     == "unknown"
Available   == "available"
Blocked     == "blocked"
Unavailable == "unavailable"
NetworkStatus == {Unknown, Available, Blocked, Unavailable}

\* NetworkControllerEventType
NetworkDidChange  == "NetworkController:networkDidChange"
NetworkWillChange == "NetworkController:networkWillChange"
InfuraIsBlocked   == "NetworkController:infuraIsBlocked"
InfuraIsUnblocked == "NetworkController:infuraIsUnblocked"

\* NETWORK_TYPES.RPC
RPC == "rpc"

\* INFURA_PROVIDER_TYPES, restricted to two built-in networks
INFURA_PROVIDER_TYPES == {"mainnet", "goerli"}

\* BUILT_IN_INFURA_NETWORKS: the constants of each built-in network
BUILT_IN_INFURA_NETWORKS ==
    [t \in INFURA_PROVIDER_TYPES |->
        IF t = "mainnet"
        THEN [chainId |-> "0x1", ticker |-> Undefined,
              blockExplorerUrl |-> "https://etherscan.io"]
        ELSE [chainId |-> "0x5", ticker |-> "GoerliETH",
              blockExplorerUrl |-> "https://goerli.etherscan.io"]]

\* INFURA_BLOCKED_KEY
INFURA_BLOCKED_KEY == "countryBlocked"

\* errorCodes.rpc.internal (eth-rpc-errors); error codes are kept as text so
\* that numeric codes and codes such as ERR_ASSERTION compare
RpcInternal == "-32603"

\* A ProviderConfiguration.  An absent field is Undefined; rpcPrefs is
\* represented by its blockExplorerUrl.  setActiveNetwork spreads the whole
\* network configuration into the provider configuration, id included.
Config(type, chainId, rpcUrl, ticker, nickname, rpcPrefs, id) ==
    [type |-> type, chainId |-> chainId, rpcUrl |-> rpcUrl, ticker |-> ticker,
     nickname |-> nickname, rpcPrefs |-> rpcPrefs, id |-> id]

\* JavaScript truthiness of a string-valued field
Truthy(v) == v # Undefined /\ v # ""

NoProxy == [id |-> 0, target |-> 0]

\* The part of the state that a store subscriber or a proxy holder can see.
Snap(m) ==
    [provider       |-> m.providerStore,
     previous       |-> m.previousProviderStore,
     networkId      |-> m.networkIdStore,
     networkStatus  |-> m.networkStatusStore,
     networkDetails |-> m.networkDetails,
     providerTarget |-> m._providerProxy.target,
     trackerTarget  |-> m._blockTrackerProxy.target]

\* Appends one observable step to the trace of the running call.
Log(m, kind, what) ==
    [m EXCEPT !.trace = Append(@, [kind |-> kind, what |-> what, st |-> Snap(m)])]

----------------------------------------------------------------------------
\* Defaults.

buildDefaultProviderConfigState(env) ==
    IF env = "IN_TEST"
    THEN Config(RPC, "0x539", "http://localhost:8545", "ETH", "Localhost 8545",
                Undefined, Undefined)
    ELSE IF env = "METAMASK_DEBUG"
    THEN Config("goerli", "0x5", Undefined, "GoerliETH", Undefined, Undefined,
                Undefined)
    ELSE Config("mainnet", "0x1", Undefined, "ETH", Undefined, Undefined,
                Undefined)

buildDefaultNetworkIdState == Null

buildDefaultNetworkStatusState == Unknown

\* EIPS maps an EIP number to a boolean; a number outside its domain is
\* undefined ({1559: undefined} and {} read the same).
buildDefaultNetworkDetailsState == [EIPS |-> <<>>]

buildDefaultNetworkConfigurationsState == <<>>

isInfuraProviderType(type) == type \in INFURA_PROVIDER_TYPES

\* EIPS[1559] of a networkDetails value
EIP1559(details) ==
    IF 1559 \in DOMAIN details.EIPS
    THEN (IF details.EIPS[1559] THEN "true" ELSE "false")
    ELSE Undefined

----------------------------------------------------------------------------
\* Errors, blocks and the two conversions lookupNetwork applies to them.

\* What a rejected RPC carries: whether it is an object with a code and with
\* a message, and their values.
Error(hasCode, code, hasMessage, message) ==
    [hasCode |-> hasCode, code |-> code, hasMessage |-> hasMessage,
     message |-> message]

NoError == Error(FALSE, Undefined, FALSE, Undefined)

BlockedBody == "{\"error\":\"countryBlocked\"}"
OtherBody   == "{\"error\":\"rateLimited\"}"
QuotedBody  == "\"countryBlocked\""
PlainText   == "Internal JSON-RPC error."

\* The AssertionError that assert() throws
AssertionError == Error(TRUE, "ERR_ASSERTION", TRUE, "value is not a number")

isErrorWithCode(error) == error.hasCode

isErrorWithMessage(error) == error.hasMessage

\* JSON.parse on the messages above: whether it parses, whether the value is
\* a plain object, and that object's error field.
JSONParse(message) ==
    CASE message = BlockedBody ->
            [parsed |-> TRUE, plainObject |-> TRUE, error |-> "countryBlocked"]
      [] message = OtherBody ->
            [parsed |-> TRUE, plainObject |-> TRUE, error |-> "rateLimited"]
      [] message = QuotedBody ->
            [parsed |-> TRUE, plainObject |-> FALSE, error |-> Undefined]
      [] OTHER ->
            [parsed |-> FALSE, plainObject |-> FALSE, error |-> Undefined]

\* /^\d+$/u.test(value), value a string given as its characters
TestDigits(value) ==
    /\ Len(value) > 0
    /\ \A i \in 1..Len(value) : value[i] \in Digits

\* Number.isNaN(Number(value)) on the strings of the model: Number reads the
\* empty string as 0, and decimal, hexadecimal (0x...) and fractional
\* literals as their value; anything else is NaN.
NumberIsNaN(value) ==
    LET digits(v) == Len(v) > 0 /\ \A i \in 1..Len(v) : v[i] \in Digits
        hex(v)    == Len(v) > 2 /\ v[1] = "0" /\ v[2] = "x"
                     /\ digits(SubSeq(v, 3, Len(v)))
        frac(v)   == \E k \in 1..Len(v) :
                        /\ v[k] = "."
                        /\ digits(SubSeq(v, 1, k - 1) \o SubSeq(v, k + 1, Len(v)))
    IN ~(value = <<>> \/ digits(value) \/ hex(value) \/ frac(value))

\* The assertion without its regular expression
assertNetworkIdByNumberAlone(value) == ~NumberIsNaN(value)

\* assert(/^\d+$/u.test(value) && !Number.isNaN(Number(value))): whether it
\* passes
assertNetworkId(value) == TestDigits(value) /\ ~NumberIsNaN(value)

\* A block header, or null
Block(isNull, baseFeePerGas) == [isNull |-> isNull, baseFeePerGas |-> baseFeePerGas]

NoBlock == Block(TRUE, Undefined)

\* latestBlock?.baseFeePerGas !== undefined
SupportsEIP1559(latestBlock) ==
    IF latestBlock.isNull THEN FALSE ELSE latestBlock.baseFeePerGas # Undefined

\* The catch block with the code looked at before the body
ClassifyErrorByCodeFirst(error) ==
    IF isErrorWithCode(error) /\ isErrorWithMessage(error)
    THEN LET responseBody == JSONParse(error.message) IN
         IF error.code = RpcInternal
         THEN Unknown
         ELSE IF responseBody.parsed /\ responseBody.plainObject
                 /\ responseBody.error = INFURA_BLOCKED_KEY
         THEN Blocked
         ELSE Unavailable
    ELSE Unknown

\* The catch block with Unavailable for an error of unknown shape
ClassifyErrorUnavailableByDefault(error) ==
    IF isErrorWithCode(error) /\ isErrorWithMessage(error)
    THEN LET responseBody == JSONParse(error.message) IN
         IF responseBody.parsed /\ responseBody.plainObject
            /\ responseBody.error = INFURA_BLOCKED_KEY
         THEN Blocked
         ELSE IF error.code = RpcInternal
         THEN Unknown
         ELSE Unavailable
    ELSE Unavailable

\* The catch block with networkStatus left unassigned for an error of
\* unknown shape
ClassifyErrorLeavesUnassigned(error) ==
    IF isErrorWithCode(error) /\ isErrorWithMessage(error)
    THEN LET responseBody == JSONParse(error.message) IN
         IF responseBody.parsed /\ responseBody.plainObject
            /\ responseBody.error = INFURA_BLOCKED_KEY
         THEN Blocked
         ELSE IF error.code = RpcInternal
         THEN Unknown
         ELSE Unavailable
    ELSE Undefined

\* The catch block of lookupNetwork: the status an error is classified as.
ClassifyError(error) ==
    IF isErrorWithCode(error) /\ isErrorWithMessage(error)
    THEN LET responseBody == JSONParse(error.message) IN
         IF responseBody.parsed /\ responseBody.plainObject
            /\ responseBody.error = INFURA_BLOCKED_KEY
         THEN Blocked
         ELSE IF error.code = RpcInternal
         THEN Unknown
         ELSE Unavailable
    ELSE Unknown

----------------------------------------------------------------------------
\* The controller, as operators on a record m of its fields (the variables
\* but lastSwitch and lastCall, plus the trace of the running call and whether it threw).

\* messenger.subscribe / messenger.unsubscribe of a probe's listener
subscribe(m, p) == Log([m EXCEPT !.listeners = @ \cup {p}], "subscribe", NetworkDidChange)

unsubscribe(m, p) == Log([m EXCEPT !.listeners = @ \ {p}], "unsubscribe", NetworkDidChange)

\* A listener that unsubscribes without recording the change
listenerForgets(m, p) == unsubscribe(m, p)

\* A listener that records the change and stays subscribed
listenerStaysSubscribed(m, p) == [m EXCEPT !.probes[p].networkChanged = TRUE]

\* The listener lookupNetwork registers on NetworkDidChange
listener(m, p) ==
    unsubscribe([m EXCEPT !.probes[p].networkChanged = TRUE], p)

\* The subscribers of an event are called in subscription order.
RECURSIVE notify(_, _)
notify(m, ps) ==
    IF ps = {} THEN m
    ELSE LET p == CHOOSE x \in ps : \A y \in ps : x <= y
         IN notify(listener(m, p), ps \ {p})

\* messenger.publish
publish(m, event) ==
    IF event = NetworkDidChange
    THEN notify(Log([m EXCEPT !.didChanges = @ + 1], "publish", event), m.listeners)
    ELSE Log(m, "publish", event)

putNetworkId(m, v) == Log([m EXCEPT !.networkIdStore = v], "putState", "networkId")

putNetworkStatus(m, v) == Log([m EXCEPT !.networkStatusStore = v], "putState", "networkStatus")

putNetworkDetails(m, v) == Log([m EXCEPT !.networkDetails = v], "putState", "networkDetails")

_resetNetworkId(m) == putNetworkId(m, buildDefaultNetworkIdState)

_resetNetworkStatus(m) == putNetworkStatus(m, buildDefaultNetworkStatusState)

_resetNetworkDetails(m) == putNetworkDetails(m, buildDefaultNetworkDetailsState)

\* An update that stores {EIPS: {1559: v}} without spreading the stored EIPS
updateEIP1559Alone(m, v) ==
    Log([m EXCEPT !.networkDetails.EIPS = (1559 :> v)], "updateState", "networkDetails")

\* networkDetails.updateState({EIPS: {...EIPS, 1559: v}}): a shallow merge
\* onto the stored record, the other EIPS slots kept
updateEIP1559(m, v) ==
    Log([m EXCEPT !.networkDetails.EIPS = (1559 :> v) @@ @], "updateState", "networkDetails")

Throw(m, what) == [Log(m, "throw", what) EXCEPT !.threw = TRUE]

\* The argument of createNetworkClient
ClientSpec(type, network, rpcUrl, chainId) ==
    [type |-> type, network |-> network, rpcUrl |-> rpcUrl, chainId |-> chainId]

NoClient == ClientSpec(Undefined, Undefined, Undefined, Undefined)

\* createNetworkClient: an independent {provider, blockTracker} pair, known
\* by the number of the call that built it
createNetworkClient(m, spec) ==
    Log([m EXCEPT !.clients = @ + 1, !.networkClient = spec],
        "createNetworkClient", spec.type)

\* Proxies created anew for every client
_setProviderAndBlockTrackerAnew(m, client) ==
    LET m1 == Log([m EXCEPT !._providerProxy =
                                [id |-> m.proxiesCreated + 1, target |-> client],
                             !.proxiesCreated = @ + 1],
                  "createProxy", "provider")
        m2 == Log([m1 EXCEPT !._blockTrackerProxy =
                                 [id |-> m1.proxiesCreated + 1, target |-> client],
                              !.proxiesCreated = @ + 1],
                  "createProxy", "blockTracker")
    IN [m2 EXCEPT !._provider = client, !._blockTracker = client]

\* Proxies that keep the target they were created with
_setProviderAndBlockTrackerOnce(m, client) ==
    LET m1 == IF m._providerProxy.id # 0
              THEN m
              ELSE Log([m EXCEPT !._providerProxy =
                                    [id |-> m.proxiesCreated + 1, target |-> client],
                                 !.proxiesCreated = @ + 1],
                       "createProxy", "provider")
        m2 == IF m1._blockTrackerProxy.id # 0
              THEN m1
              ELSE Log([m1 EXCEPT !._blockTrackerProxy =
                                    [id |-> m1.proxiesCreated + 1, target |-> client],
                                  !.proxiesCreated = @ + 1],
                       "createProxy", "blockTracker")
    IN [m2 EXCEPT !._provider = client, !._blockTracker = client]

_setProviderAndBlockTracker(m, client) ==
    LET m1 == IF m._providerProxy.id # 0
              THEN Log([m EXCEPT !._providerProxy.target = client],
                       "setTarget", "provider")
              ELSE Log([m EXCEPT !._providerProxy =
                                    [id |-> m.proxiesCreated + 1, target |-> client],
                                 !.proxiesCreated = @ + 1],
                       "createProxy", "provider")
        m2 == IF m1._blockTrackerProxy.id # 0
              THEN Log([m1 EXCEPT !._blockTrackerProxy.target = client],
                       "setTarget", "blockTracker")
              ELSE Log([m1 EXCEPT !._blockTrackerProxy =
                                    [id |-> m1.proxiesCreated + 1, target |-> client],
                                  !.proxiesCreated = @ + 1],
                       "createProxy", "blockTracker")
    IN [m2 EXCEPT !._provider = client, !._blockTracker = client]

_configureInfuraProvider(m, type) ==
    LET m1 == createNetworkClient(m, ClientSpec("infura", type, Undefined, Undefined))
    IN _setProviderAndBlockTracker(m1, m1.clients)

\* A custom client built without the chainId
_configureStandardProviderWithoutChainId(m, rpcUrl, chainId) ==
    LET m1 == createNetworkClient(m, ClientSpec("custom", Undefined, rpcUrl, Undefined))
    IN _setProviderAndBlockTracker(m1, m1.clients)

_configureStandardProvider(m, rpcUrl, chainId) ==
    LET m1 == createNetworkClient(m, ClientSpec("custom", Undefined, rpcUrl, chainId))
    IN _setProviderAndBlockTracker(m1, m1.clients)

_configureProvider(m, config) ==
    IF isInfuraProviderType(config.type)
    THEN _configureInfuraProvider(m, config.type)
    ELSE IF config.type = RPC /\ Truthy(config.rpcUrl)
    THEN _configureStandardProvider(m, config.rpcUrl, config.chainId)
    ELSE Throw(m, "unknown type")

\* The two proxies, each known by the number it was created with; 0 is null.
getProviderAndBlockTracker(m) ==
    [provider |-> m._providerProxy.id, blockTracker |-> m._blockTrackerProxy.id]

\* The event-emitter proxy created with eventFilter: 'skipInternal'.  The
\* names of the events a listener may be registered for through it; the
\* filter passes the names that are not internal.
EventNames == {"latest", "sync", "_internal"}

skipInternal(name) == name # "_internal"

\* The block tracker whose events of the given name reach a listener that
\* was registered through the block-tracker proxy numbered id when that
\* proxy targeted the block tracker at: setTarget re-registers the listener
\* on the new target and deregisters it from the old one if the filter
\* passes the name; a listener of a proxy that is no longer the controller's
\* stays where it is.
ListensTo(m, id, at, name) ==
    IF skipInternal(name) /\ m._blockTrackerProxy.id = id
    THEN m._blockTrackerProxy.target
    ELSE at

----------------------------------------------------------------------------
\* lookupNetwork, up to its await and after it.

\* A lookupNetwork call suspended at its await: the constant isInfura it
\* computed from the type it read, the provider its two requests were sent
\* to, and its local networkChanged.  didChangesAtStart records how many
\* NetworkDidChange events had been published when it started.
NewProbe(m) ==
    [isInfura          |-> isInfuraProviderType(m.providerStore.type),
     provider          |-> m._providerProxy.target,
     networkChanged    |-> FALSE,
     returned          |-> FALSE,
     didChangesAtStart |-> m.didChanges]

\* lookupNetwork that resets the derived state when there is no provider
lookupNetworkResetsWithoutProvider(m) ==
    IF m._providerProxy.id = 0 \/ ~Truthy(m.providerStore.chainId)
    THEN _resetNetworkDetails(_resetNetworkStatus(_resetNetworkId(
             Log(m, "warn", "missing provider or chainId"))))
    ELSE LET p  == Len(m.probes) + 1
             m1 == subscribe([m EXCEPT !.probes = Append(@, NewProbe(m))], p)
         IN Log(Log(m1, "request", "net_version"), "request", "eth_getBlockByNumber")

lookupNetwork(m) ==
    IF m._providerProxy.id = 0
    THEN Log(m, "warn", "missing provider")
    ELSE IF ~Truthy(m.providerStore.chainId)
    THEN _resetNetworkDetails(_resetNetworkStatus(_resetNetworkId(
             Log(m, "warn", "missing chainId"))))
    ELSE LET p  == Len(m.probes) + 1
             m1 == subscribe([m EXCEPT !.probes = Append(@, NewProbe(m))], p)
         IN Log(Log(m1, "request", "net_version"), "request", "eth_getBlockByNumber")

\* What Promise.all over the two requests settles to: fulfilled with both
\* results, or rejected with the first rejection.
Fulfilled(netId, block) ==
    [fulfilled |-> TRUE, netId |-> netId, block |-> block, error |-> NoError]

Rejected(error) ==
    [fulfilled |-> FALSE, netId |-> Null, block |-> NoBlock, error |-> error]

\* The locals networkStatus, networkId and supportsEIP1559 of lookupNetwork
Locals(networkStatus, networkId, supportsEIP1559) ==
    [networkStatus |-> networkStatus, networkId |-> networkId,
     supportsEIP1559 |-> supportsEIP1559]

NoLocals == Locals(Undefined, Null, FALSE)

\* The try/catch of lookupNetwork: the locals after it
classify(outcome) ==
    IF outcome.fulfilled /\ assertNetworkId(outcome.netId)
    THEN Locals(Available, outcome.netId, SupportsEIP1559(outcome.block))
    ELSE Locals(ClassifyError(IF outcome.fulfilled THEN AssertionError
                              ELSE outcome.error),
                Null, FALSE)

\* The event table with InfuraIsUnblocked also for a built-in network of
\* unknown status
publishUnblockedWhenUnknown(m, isInfura, networkStatus) ==
    IF isInfura
    THEN IF networkStatus \in {Available, Unknown}
         THEN publish(m, InfuraIsUnblocked)
         ELSE IF networkStatus = Blocked
         THEN publish(m, InfuraIsBlocked)
         ELSE m
    ELSE publish(m, InfuraIsUnblocked)

\* The event table with nothing published for a custom network
publishForBuiltInOnly(m, isInfura, networkStatus) ==
    IF isInfura
    THEN IF networkStatus = Available
         THEN publish(m, InfuraIsUnblocked)
         ELSE IF networkStatus = Blocked
         THEN publish(m, InfuraIsBlocked)
         ELSE m
    ELSE m

\* The event table applied to custom networks as to built-in ones
publishByStatusOnly(m, isInfura, networkStatus) ==
    IF networkStatus = Available
    THEN publish(m, InfuraIsUnblocked)
    ELSE IF networkStatus = Blocked
    THEN publish(m, InfuraIsBlocked)
    ELSE m

\* The events lookupNetwork publishes once the status is stored
publishInfuraStatus(m, isInfura, networkStatus) ==
    IF isInfura
    THEN IF networkStatus = Available
         THEN publish(m, InfuraIsUnblocked)
         ELSE IF networkStatus = Blocked
         THEN publish(m, InfuraIsBlocked)
         ELSE m
    ELSE publish(m, InfuraIsUnblocked)

\* The stores written with EIPS left alone when the network is available
storeWithoutEIP1559(m, locals) ==
    LET m1 == putNetworkStatus(m, locals.networkStatus)
    IN IF locals.networkStatus = Available
       THEN putNetworkId(m1, locals.networkId)
       ELSE _resetNetworkDetails(_resetNetworkId(m1))

\* The stores written with nothing reset when the network is not available
storeWithoutReset(m, locals) ==
    LET m1 == putNetworkStatus(m, locals.networkStatus)
    IN IF locals.networkStatus = Available
       THEN updateEIP1559(putNetworkId(m1, locals.networkId), locals.supportsEIP1559)
       ELSE m1

\* The status stored and nothing else
storeStatusOnly(m, locals) == putNetworkStatus(m, locals.networkStatus)

\* The stores lookupNetwork writes once it knows it is not stale
storeProbeResult(m, locals) ==
    LET m1 == putNetworkStatus(m, locals.networkStatus)
    IN IF locals.networkStatus = Available
       THEN updateEIP1559(putNetworkId(m1, locals.networkId), locals.supportsEIP1559)
       ELSE _resetNetworkDetails(_resetNetworkId(m1))

\* lookupNetwork from the settling of its Promise.all to its return
lookupNetworkAfterAwait(m, p, outcome) ==
    LET pr     == m.probes[p]
        locals == classify(outcome)
        error  == IF outcome.fulfilled THEN AssertionError ELSE outcome.error
        m00    == [m EXCEPT !.probes[p].returned = TRUE, !.locals = locals]
        m0     == IF locals.networkStatus # Available
                     /\ ~(isErrorWithCode(error) /\ isErrorWithMessage(error))
                  THEN Log(m00, "warn", "could not determine network status")
                  ELSE m00
    IN IF pr.networkChanged
       THEN m0
       ELSE publishInfuraStatus(storeProbeResult(unsubscribe(m0, p), locals),
                                pr.isInfura, locals.networkStatus)

----------------------------------------------------------------------------
\* Switching.

\* A switch that leaves networkDetails as it was
_switchNetworkKeepsDetails(m, providerConfig) ==
    LET m1 == publish(m, NetworkWillChange)
        m2 == _resetNetworkStatus(_resetNetworkId(m1))
        m3 == _configureProvider(m2, providerConfig)
    IN IF m3.threw THEN m3
       ELSE lookupNetwork(publish(m3, NetworkDidChange))

\* A switch that launches no probe
_switchNetworkWithoutLookup(m, providerConfig) ==
    LET m1 == publish(m, NetworkWillChange)
        m2 == _resetNetworkDetails(_resetNetworkStatus(_resetNetworkId(m1)))
        m3 == _configureProvider(m2, providerConfig)
    IN IF m3.threw THEN m3
       ELSE publish(m3, NetworkDidChange)

\* A switch that announces the change before it installs the provider
_switchNetworkAnnouncesEarly(m, providerConfig) ==
    LET m1 == publish(m, NetworkWillChange)
        m2 == _resetNetworkDetails(_resetNetworkStatus(_resetNetworkId(m1)))
        m3 == _configureProvider(publish(m2, NetworkDidChange), providerConfig)
    IN IF m3.threw THEN m3
       ELSE lookupNetwork(m3)

\* A switch that does not announce that the network has changed
_switchNetworkWithoutDidChange(m, providerConfig) ==
    LET m1 == publish(m, NetworkWillChange)
        m2 == _resetNetworkDetails(_resetNetworkStatus(_resetNetworkId(m1)))
        m3 == _configureProvider(m2, providerConfig)
    IN IF m3.threw THEN m3
       ELSE lookupNetwork(m3)

_switchNetwork(m, providerConfig) ==
    LET m1 == publish(m, NetworkWillChange)
        m2 == _resetNetworkDetails(_resetNetworkStatus(_resetNetworkId(m1)))
        m3 == _configureProvider(m2, providerConfig)
    IN IF m3.threw THEN m3
       ELSE lookupNetwork(publish(m3, NetworkDidChange))

\* _setProviderConfig that takes its snapshot after it wrote providerStore
_setProviderConfigSnapshotsLast(m, providerConfig) ==
    LET m1 == Log([m EXCEPT !.providerStore = providerConfig],
                  "putState", "provider")
        m2 == Log([m1 EXCEPT !.previousProviderStore = m1.providerStore],
                  "putState", "previousProviderStore")
    IN _switchNetwork(m2, providerConfig)

\* _setProviderConfig that keeps no copy of the configuration it replaces
_setProviderConfigWithoutSnapshot(m, providerConfig) ==
    _switchNetwork(Log([m EXCEPT !.providerStore = providerConfig],
                       "putState", "provider"),
                   providerConfig)

_setProviderConfig(m, providerConfig) ==
    LET m1 == Log([m EXCEPT !.previousProviderStore = m.providerStore],
                  "putState", "previousProviderStore")
        m2 == Log([m1 EXCEPT !.providerStore = providerConfig],
                  "putState", "provider")
    IN _switchNetwork(m2, providerConfig)

\* initializeProvider that runs the switch sequence
initializeProviderBySwitch(m) == _switchNetwork(m, m.providerStore)

initializeProvider(m) ==
    LET m1 == _configureProvider(m, m.providerStore)
    IN IF m1.threw THEN m1 ELSE lookupNetwork(m1)

\* setProviderType that keeps the chainId of the configuration it replaces
setProviderTypeKeepsChainId(m, type) ==
    IF type = RPC
    THEN Throw(m, "cannot call setProviderType with type rpc")
    ELSE IF ~isInfuraProviderType(type)
    THEN Throw(m, "Unknown Infura provider type")
    ELSE LET network == BUILT_IN_INFURA_NETWORKS[type]
         IN _setProviderConfig(m,
                Config(type, m.providerStore.chainId, "",
                       IF network.ticker # Undefined THEN network.ticker ELSE "ETH",
                       "", network.blockExplorerUrl, Undefined))

setProviderType(m, type) ==
    IF type = RPC
    THEN Throw(m, "cannot call setProviderType with type rpc")
    ELSE IF ~isInfuraProviderType(type)
    THEN Throw(m, "Unknown Infura provider type")
    ELSE LET network == BUILT_IN_INFURA_NETWORKS[type]
         IN _setProviderConfig(m,
                Config(type, network.chainId, "",
                       IF network.ticker # Undefined THEN network.ticker ELSE "ETH",
                       "", network.blockExplorerUrl, Undefined))

\* setActiveNetwork that passes the entry on as it is, without type: 'rpc'
setActiveNetworkWithoutType(m, networkConfigurationId) ==
    IF networkConfigurationId \notin DOMAIN m.networkConfigurationsStore
    THEN Throw(m, "does not match a configured networkConfiguration")
    ELSE LET targetNetwork == m.networkConfigurationsStore[networkConfigurationId]
         IN [_setProviderConfig(m, targetNetwork)
                EXCEPT !.returns = targetNetwork.rpcUrl]

setActiveNetwork(m, networkConfigurationId) ==
    IF networkConfigurationId \notin DOMAIN m.networkConfigurationsStore
    THEN Throw(m, "does not match a configured networkConfiguration")
    ELSE LET targetNetwork == m.networkConfigurationsStore[networkConfigurationId]
         IN [_setProviderConfig(m, [targetNetwork EXCEPT !.type = RPC])
                EXCEPT !.returns = targetNetwork.rpcUrl]

\* resetConnection that only switches
resetConnectionBySwitchOnly(m) == _switchNetwork(m, m.providerStore)

resetConnection(m) == _setProviderConfig(m, m.providerStore)

\* rollbackToPreviousProvider that switches without writing providerStore
rollbackToPreviousProviderKeepsProvider(m) ==
    _switchNetwork(m, m.previousProviderStore)

\* rollbackToPreviousProvider that snapshots the configuration it replaces
rollbackToPreviousProviderAndSnapshot(m) ==
    _setProviderConfig(m, m.previousProviderStore)

rollbackToPreviousProvider(m) ==
    LET config == m.previousProviderStore
        m1 == Log([m EXCEPT !.providerStore = config], "putState", "provider")
    IN _switchNetwork(m1, config)

----------------------------------------------------------------------------
\* getEIP1559Compatibility, up to its await and after it.

\* getEIP1559Compatibility that sends its request whether or not there is
\* a provider
getEIP1559CompatibilityWithoutProvider(m) ==
    IF EIP1559(m.networkDetails) # Undefined
    THEN [m EXCEPT !.returns = EIP1559(m.networkDetails)]
    ELSE Log([m EXCEPT !.eipCalls = Append(@, [provider |-> m._providerProxy.target])],
             "request", "eth_getBlockByNumber")

getEIP1559Compatibility(m) ==
    IF EIP1559(m.networkDetails) # Undefined
    THEN [m EXCEPT !.returns = EIP1559(m.networkDetails)]
    ELSE IF m._providerProxy.id = 0
    THEN [m EXCEPT !.returns = "false"]
    ELSE Log([m EXCEPT !.eipCalls = Append(@, [provider |-> m._providerProxy.target])],
             "request", "eth_getBlockByNumber")

\* A return that stores nothing when the provider the block was requested
\* from is no longer the target of the provider proxy
getEIP1559CompatibilityAfterAwaitIfCurrent(m, c, rejected, latestBlock) ==
    LET m1 == [m EXCEPT !.eipCalls = SubSeq(@, 1, c - 1) \o SubSeq(@, c + 1, Len(@))]
    IN IF rejected
       THEN Throw(m1, "eth_getBlockByNumber rejected")
       ELSE IF m.eipCalls[c].provider # m._providerProxy.target
       THEN [m1 EXCEPT !.returns = IF SupportsEIP1559(latestBlock) THEN "true" ELSE "false"]
       ELSE [updateEIP1559(m1, SupportsEIP1559(latestBlock))
                EXCEPT !.returns = IF SupportsEIP1559(latestBlock) THEN "true" ELSE "false"]

\* The call numbered c in eipCalls receives its block (rejected: the call
\* rejects in turn) and returns.
getEIP1559CompatibilityAfterAwait(m, c, rejected, latestBlock) ==
    LET m1 == [m EXCEPT !.eipCalls = SubSeq(@, 1, c - 1) \o SubSeq(@, c + 1, Len(@))]
    IN IF rejected
       THEN Throw(m1, "eth_getBlockByNumber rejected")
       ELSE [updateEIP1559(m1, SupportsEIP1559(latestBlock))
                EXCEPT !.returns = IF SupportsEIP1559(latestBlock) THEN "true" ELSE "false"]

----------------------------------------------------------------------------
\* The registry of network configurations.

\* The rpcUrl, chainId, ticker and other arguments the model calls
\* upsertNetworkConfiguration with
RpcUrls == {"https://foo/", "https://Foo/", "https://x/", "", "not a url"}

ChainIds == {"0x539", "539", "0xfffffffffffffffff"}

\* String.prototype.toLowerCase on the URLs above
toLowerCase(s) == IF s = "https://Foo/" THEN "https://foo/" ELSE s

\* new URL(rpcUrl) does not throw
isValidURL(s) == s \in {"https://foo/", "https://Foo/", "https://x/"}

\* The message of the TypeError that new URL throws is the runtime's: "Invalid
\* URL" in some, "URL constructor: ... is not a valid URL." in others.
URLErrorMessages == {"Invalid URL", "URL constructor: not a url is not a valid URL."}

\* e.message.includes('Invalid URL') on the messages above
includesInvalidURL(message) == message = "Invalid URL"

\* /^0x[1-9a-f]+[0-9a-f]*$/iu on the chain ids above
isPrefixedFormattedHexString(chainId) == chainId \in {"0x539", "0xfffffffffffffffff"}

\* parseInt(chainId, 16) is a safe integer in 1..4503599627370476
isSafeChainId(chainId) == chainId \in {"0x539", "539"}

\* uuid(): the n-th value minted
uuid(n) == ToString(n)

\* The lookup of an entry by the rpcUrl as it is written
oldNetworkConfigurationIdByExactUrl(networkConfigurations, rpcUrl) ==
    LET found == {id \in DOMAIN networkConfigurations :
                     networkConfigurations[id].rpcUrl = rpcUrl}
    IN IF found = {} THEN Undefined ELSE CHOOSE id \in found : TRUE

\* Object.values(networkConfigurations).find(same rpcUrl ignoring case)?.id
oldNetworkConfigurationId(networkConfigurations, rpcUrl) ==
    LET found == {id \in DOMAIN networkConfigurations :
                     toLowerCase(networkConfigurations[id].rpcUrl) = toLowerCase(rpcUrl)}
    IN IF found = {} THEN Undefined ELSE CHOOSE id \in found : TRUE

\* this._trackMetaMetricsEvent(payload): the event sink given to the
\* constructor; the category is a constant and is left out
_trackMetaMetricsEvent(m, payload) == Log(m, "trackEvent", payload)

CustomNetworkAdded(nc, args) ==
    [event    |-> "Custom Network Added",
     referrer |-> [url |-> args.referrer],
     chain_id |-> nc.chainId,
     symbol   |-> nc.ticker,
     source   |-> args.source]

\* The event tracked whether or not an entry matched
trackAlways(m, oldId, nc, args) ==
    _trackMetaMetricsEvent(m, CustomNetworkAdded(nc, args))

\* if (!oldNetworkConfigurationId) this._trackMetaMetricsEvent(...)
trackIfNew(m, oldId, nc, args) ==
    IF oldId = Undefined
    THEN _trackMetaMetricsEvent(m, CustomNetworkAdded(nc, args))
    ELSE m

\* An upsert that keeps the nickname and rpcPrefs of the entry it replaces
\* when the call supplies none
upsertNetworkConfigurationMerging(m, nc, args) ==
    IF ~isPrefixedFormattedHexString(nc.chainId)
    THEN Throw(m, "Invalid chain ID: invalid hex string")
    ELSE IF ~isSafeChainId(nc.chainId)
    THEN Throw(m, "Invalid chain ID: numerical value greater than max safe value")
    ELSE IF ~Truthy(nc.rpcUrl)
    THEN Throw(m, "An rpcUrl is required")
    ELSE IF ~Truthy(args.referrer) \/ ~Truthy(args.source)
    THEN Throw(m, "referrer and source are required")
    ELSE IF ~isValidURL(nc.rpcUrl) /\ includesInvalidURL(args.urlErrorMessage)
    THEN Throw(m, "rpcUrl must be a valid URL")
    ELSE IF ~Truthy(nc.ticker)
    THEN Throw(m, "A ticker is required")
    ELSE LET networkConfigurations == m.networkConfigurationsStore
             oldId == oldNetworkConfigurationId(networkConfigurations, nc.rpcUrl)
             newId == IF oldId # Undefined THEN oldId ELSE uuid(m.uuids + 1)
             kept(field, value) ==
                 IF value = Undefined /\ oldId # Undefined
                 THEN networkConfigurations[oldId][field]
                 ELSE value
             m1 == IF oldId # Undefined THEN m ELSE [m EXCEPT !.uuids = @ + 1]
             m2 == Log([m1 EXCEPT !.networkConfigurationsStore =
                           (newId :> Config(Undefined, nc.chainId, nc.rpcUrl, nc.ticker,
                                            kept("nickname", nc.nickname),
                                            kept("rpcPrefs", nc.rpcPrefs), newId))
                           @@ networkConfigurations],
                       "putState", "networkConfigurations")
             m3 == trackIfNew(m2, oldId, nc, args)
             m4 == IF args.setActive THEN setActiveNetwork(m3, newId) ELSE m3
         IN IF m4.threw THEN m4 ELSE [m4 EXCEPT !.returns = newId]

\* nc: [rpcUrl, chainId, ticker, nickname, rpcPrefs];
\* args: [setActive, referrer, source], and with them urlErrorMessage, the
\* message the runtime gives the error of new URL when it throws
upsertNetworkConfiguration(m, nc, args) ==
    IF ~isPrefixedFormattedHexString(nc.chainId)
    THEN Throw(m, "Invalid chain ID: invalid hex string")
    ELSE IF ~isSafeChainId(nc.chainId)
    THEN Throw(m, "Invalid chain ID: numerical value greater than max safe value")
    ELSE IF ~Truthy(nc.rpcUrl)
    THEN Throw(m, "An rpcUrl is required")
    ELSE IF ~Truthy(args.referrer) \/ ~Truthy(args.source)
    THEN Throw(m, "referrer and source are required")
    ELSE IF ~isValidURL(nc.rpcUrl) /\ includesInvalidURL(args.urlErrorMessage)
    THEN Throw(m, "rpcUrl must be a valid URL")
    ELSE IF ~Truthy(nc.ticker)
    THEN Throw(m, "A ticker is required")
    ELSE LET networkConfigurations == m.networkConfigurationsStore
             oldId == oldNetworkConfigurationId(networkConfigurations, nc.rpcUrl)
             newId == IF oldId # Undefined THEN oldId ELSE uuid(m.uuids + 1)
             m1 == IF oldId # Undefined THEN m ELSE [m EXCEPT !.uuids = @ + 1]
             m2 == Log([m1 EXCEPT !.networkConfigurationsStore =
                           (newId :> Config(Undefined, nc.chainId, nc.rpcUrl, nc.ticker,
                                            nc.nickname, nc.rpcPrefs, newId))
                           @@ networkConfigurations],
                       "putState", "networkConfigurations")
             m3 == trackIfNew(m2, oldId, nc, args)
             m4 == IF args.setActive THEN setActiveNetwork(m3, newId) ELSE m3
         IN IF m4.threw THEN m4 ELSE [m4 EXCEPT !.returns = newId]

\* removeNetworkConfiguration that puts an empty registry
removeNetworkConfigurationAndOthers(m, networkConfigurationId) ==
    Log([m EXCEPT !.networkConfigurationsStore = <<>>],
        "putState", "networkConfigurations")

removeNetworkConfiguration(m, networkConfigurationId) ==
    Log([m EXCEPT !.networkConfigurationsStore =
            [id \in DOMAIN @ \ {networkConfigurationId} |-> @[id]]],
        "putState", "networkConfigurations")

----------------------------------------------------------------------------
\* The state machine.

\* process.env at construction
Envs == {"IN_TEST", "production"}

\* state.networkDetails at construction: absent, or restored
RestoredNetworkDetails == [EIPS |-> (1559 :> TRUE) @@ (3675 :> TRUE)]

\* The values the model lets net_version resolve to
NetVersions == {<<"1">>, <<"0", "x", "1">>}

\* The values the model lets eth_getBlockByNumber resolve to
LatestBlocks == {Block(FALSE, "0x1"), Block(FALSE, Undefined)}

\* The errors the model lets either request reject with
Errors ==
    {Error(TRUE, "-32000", TRUE, BlockedBody),
     Error(TRUE, RpcInternal, TRUE, PlainText),
     Error(TRUE, "-32000", TRUE, PlainText)}

\* What the model lets the Promise.all of a probe settle to
Outcomes ==
    {Fulfilled(v, b) : v \in NetVersions, b \in LatestBlocks}
    \cup {Rejected(e) : e \in Errors}

\* No probe returned in the last call
NoOutcome == Rejected(NoError)

\* Every shape of error the catch block of lookupNetwork tells apart: with or
\* without a code (the RPC-internal one or another), with or without a
\* message (the blocked body, another JSON object, a JSON string, no JSON)
AllErrors ==
    {Error(TRUE, c, TRUE, b) :
        c \in {RpcInternal, "-32000"},
        b \in {BlockedBody, OtherBody, QuotedBody, PlainText}}
    \cup {Error(FALSE, Undefined, TRUE, b) :
             b \in {BlockedBody, OtherBody, QuotedBody, PlainText}}
    \cup {Error(TRUE, c, FALSE, Undefined) : c \in {RpcInternal, "-32000"}}
    \cup {Error(FALSE, Undefined, FALSE, Undefined)}

\* The strings net_version may resolve to, and the blocks, null included
AllNetVersions ==
    {<<"1">>, <<"4", "2">>, <<"0", "x", "1">>, <<"1", ".", "5">>, <<"m">>, <<>>}

AllLatestBlocks == LatestBlocks \cup {NoBlock}

AllOutcomes ==
    {Fulfilled(v, b) : v \in AllNetVersions, b \in AllLatestBlocks}
    \cup {Rejected(e) : e \in AllErrors}

\* The arguments the model calls upsertNetworkConfiguration with: valid
\* ones, and one for each check that rejects
Upsert(rpcUrl, chainId, ticker, nickname, setActive, referrer, source) ==
    [nc   |-> [rpcUrl |-> rpcUrl, chainId |-> chainId, ticker |-> ticker,
               nickname |-> nickname, rpcPrefs |-> Undefined],
     args |-> [setActive |-> setActive, referrer |-> referrer, source |-> source,
               urlErrorMessage |-> "Invalid URL"]]

ValidUpserts ==
    {Upsert("https://foo/", "0x539", "T", Undefined, a, "metamask", "ui") :
        a \in BOOLEAN}

InvalidUpserts ==
    {Upsert("https://foo/", "539", "T", Undefined, TRUE, "metamask", "ui"),
     Upsert("https://foo/", "0xfffffffffffffffff", "T", Undefined, TRUE, "metamask", "ui"),
     Upsert("", "0x539", "T", Undefined, TRUE, "metamask", "ui"),
     Upsert("not a url", "0x539", "T", Undefined, TRUE, "metamask", "ui"),
     Upsert("https://foo/", "0x539", "", Undefined, TRUE, "metamask", "ui"),
     Upsert("https://foo/", "0x539", "T", Undefined, TRUE, Undefined, "ui"),
     Upsert("https://foo/", "0x539", "T", Undefined, TRUE, "metamask", Undefined)}

Upserts == ValidUpserts \cup InvalidUpserts

\* upsertNetworkConfiguration with an rpcUrl new URL throws for, in each
\* runtime
UnparseableUpserts ==
    {[Upsert("not a url", "0x539", "T", Undefined, a, "metamask", "ui")
         EXCEPT !.args.urlErrorMessage = e] :
       a \in BOOLEAN, e \in URLErrorMessages}

\* The URL of an existing entry in another case, with other fields; a second
\* URL; and a string that is no URL in a runtime whose message for it is not
\* "Invalid URL"
RegistryUpserts ==
    Upserts
    \cup {[Upsert("https://Foo/", "0x539", "U", "nick", a, "metamask", "ui")
              EXCEPT !.nc.rpcPrefs = "https://explorer/"] :
             a \in BOOLEAN}
    \cup {Upsert("https://x/", "0x539", "T", Undefined, FALSE, "metamask", "ui")}
    \cup UnparseableUpserts

\* The operations that switch the network
SwitchOps ==
    {"setProviderType", "setActiveNetwork", "resetConnection",
     "rollbackToPreviousProvider", "upsertNetworkConfiguration(setActive)"}

\* The controller as a record, at the start of a call
Cur ==
    [providerStore              |-> providerStore,
     previousProviderStore      |-> previousProviderStore,
     networkIdStore             |-> networkIdStore,
     networkStatusStore         |-> networkStatusStore,
     networkDetails             |-> networkDetails,
     networkConfigurationsStore |-> networkConfigurationsStore,
     _provider                  |-> _provider,
     _blockTracker              |-> _blockTracker,
     _providerProxy             |-> _providerProxy,
     _blockTrackerProxy         |-> _blockTrackerProxy,
     listeners                  |-> listeners,
     probes                     |-> probes,
     clients                    |-> clients,
     networkClient              |-> networkClient,
     proxiesCreated             |-> proxiesCreated,
     uuids                      |-> uuids,
     eipCalls                   |-> eipCalls,
     didChanges                 |-> didChanges,
     trace                      |-> <<>>,
     threw                      |-> FALSE,
     returns                    |-> Undefined,
     locals                     |-> NoLocals]

\* A call of a public method, or the return of a suspended call
Call(op, arg) == [op |-> op, arg |-> arg]

\* The calls that run up to a return or an await
SyncCalls ==
    {Call("initializeProvider", Undefined), Call("lookupNetwork", Undefined),
     Call("resetConnection", Undefined), Call("rollbackToPreviousProvider", Undefined),
     Call("getEIP1559Compatibility", Undefined)}
    \cup {Call("setProviderType", type) : type \in INFURA_PROVIDER_TYPES \cup {RPC, "localhost"}}
    \cup {Call("setActiveNetwork", uuid(n)) : n \in 1..(MaxConfigs + 1)}
    \cup {Call("removeNetworkConfiguration", uuid(n)) : n \in 1..(MaxConfigs + 1)}
    \cup {Call("upsertNetworkConfiguration", u) : u \in Upserts}

\* The returns of the probes and getEIP1559Compatibility calls suspended in m
Returns(m) ==
    {Call("lookupNetwork:return", [probe |-> p, outcome |-> o]) :
        p \in {q \in 1..Len(m.probes) : ~m.probes[q].returned}, o \in Outcomes}
    \cup {Call("getEIP1559Compatibility:return",
               [call |-> c, rejected |-> FALSE, latestBlock |-> b]) :
             c \in 1..Len(m.eipCalls), b \in LatestBlocks}
    \cup {Call("getEIP1559Compatibility:return",
               [call |-> c, rejected |-> TRUE, latestBlock |-> NoBlock]) :
             c \in 1..Len(m.eipCalls)}

\* The controller after the call c made in m
Run(m, c) ==
    CASE c.op = "initializeProvider" -> initializeProvider(m)
      [] c.op = "lookupNetwork" -> lookupNetwork(m)
      [] c.op = "resetConnection" -> resetConnection(m)
      [] c.op = "rollbackToPreviousProvider" -> rollbackToPreviousProvider(m)
      [] c.op = "getEIP1559Compatibility" -> getEIP1559Compatibility(m)
      [] c.op = "setProviderType" -> setProviderType(m, c.arg)
      [] c.op = "setActiveNetwork" -> setActiveNetwork(m, c.arg)
      [] c.op = "removeNetworkConfiguration" -> removeNetworkConfiguration(m, c.arg)
      [] c.op = "upsertNetworkConfiguration" ->
            upsertNetworkConfiguration(m, c.arg.nc, c.arg.args)
      [] c.op = "lookupNetwork:return" ->
            lookupNetworkAfterAwait(m, c.arg.probe, c.arg.outcome)
      [] c.op = "getEIP1559Compatibility:return" ->
            getEIP1559CompatibilityAfterAwait(m, c.arg.call, c.arg.rejected,
                                              c.arg.latestBlock)

\* What an observer of the messenger, the stores, the proxies and the log
\* sees of one step of a call: its kind and its object.  A write to a store
\* of derived state is seen as a reset when the store holds its default
\* after it, and as a write otherwise.
Step(s) ==
    IF s.kind \in {"putState", "updateState"} /\ s.what = "networkId"
    THEN <<IF s.st.networkId = buildDefaultNetworkIdState THEN "reset" ELSE "write", s.what>>
    ELSE IF s.kind \in {"putState", "updateState"} /\ s.what = "networkStatus"
    THEN <<IF s.st.networkStatus = buildDefaultNetworkStatusState THEN "reset" ELSE "write", s.what>>
    ELSE IF s.kind \in {"putState", "updateState"} /\ s.what = "networkDetails"
    THEN <<IF s.st.networkDetails = buildDefaultNetworkDetailsState THEN "reset" ELSE "write", s.what>>
    ELSE IF s.kind = "throw" THEN <<s.kind, "Error">>
    ELSE IF s.kind = "trackEvent" THEN <<s.kind, s.what.event>>
    ELSE <<s.kind, s.what>>

Steps(trace) == [i \in DOMAIN trace |-> Step(trace[i])]

\* The messenger events among the steps of a call, in order
RECURSIVE Published(_)
Published(steps) ==
    IF steps = <<>> THEN <<>>
    ELSE IF Head(steps)[1] = "publish"
    THEN <<Head(steps)[2]>> \o Published(Tail(steps))
    ELSE Published(Tail(steps))

\* The stores of derived state a call put a value in
Written(steps) ==
    {steps[i][2] : i \in {j \in DOMAIN steps : steps[j][1] \in {"reset", "write"}}}

\* The state becomes m; probe is the probe that returned in the call that
\* led to m, or 0.
Becomes(m, probe) ==
    /\ providerStore' = m.providerStore
    /\ previousProviderStore' = m.previousProviderStore
    /\ networkIdStore' = m.networkIdStore
    /\ networkStatusStore' = m.networkStatusStore
    /\ networkDetails' = m.networkDetails
    /\ networkConfigurationsStore' = m.networkConfigurationsStore
    /\ _provider' = m._provider
    /\ _blockTracker' = m._blockTracker
    /\ _providerProxy' = m._providerProxy
    /\ _blockTrackerProxy' = m._blockTrackerProxy
    /\ listeners' = m.listeners
    /\ probes' = m.probes
    /\ clients' = m.clients
    /\ networkClient' = m.networkClient
    /\ proxiesCreated' = m.proxiesCreated
    /\ uuids' = m.uuids
    /\ eipCalls' = m.eipCalls
    /\ didChanges' = m.didChanges
    /\ lastSwitch' =
          IF m.didChanges > didChanges
          THEN [probe |-> IF Len(m.probes) > Len(probes) THEN Len(m.probes) ELSE 0,
                returned |-> FALSE, locals |-> NoLocals]
          ELSE IF probe # 0 /\ probe = lastSwitch.probe
          THEN [lastSwitch EXCEPT !.returned = TRUE, !.locals = m.locals]
          ELSE lastSwitch
    /\ lastCall' = [steps |-> Steps(m.trace), probe |-> probe]

\* The state becomes m, within the bounds.
Commit(m, probe) ==
    /\ m.clients <= MaxClients
    /\ Len(m.probes) <= MaxProbes
    /\ m.uuids <= MaxConfigs
    /\ Len(m.eipCalls) <= MaxEipCalls
    /\ Becomes(m, probe)

\* The call c runs from the current state.
Do(c) ==
    /\ Commit(Run(Cur, c), IF c.op = "lookupNetwork:return" THEN c.arg.probe ELSE 0)
    /\ settled' = NoOutcome
    /\ everCalled' = everCalled

\* The constructor: state.provider absent (the default of the environment),
\* state.networkDetails absent or restored, state.networkConfigurations absent.
Init ==
    /\ providerStore \in {buildDefaultProviderConfigState(env) : env \in Envs}
    /\ previousProviderStore = providerStore
    /\ networkIdStore = buildDefaultNetworkIdState
    /\ networkStatusStore = buildDefaultNetworkStatusState
    /\ networkDetails \in {buildDefaultNetworkDetailsState, RestoredNetworkDetails}
    /\ networkConfigurationsStore = buildDefaultNetworkConfigurationsState
    /\ _provider = 0
    /\ _blockTracker = 0
    /\ _providerProxy = NoProxy
    /\ _blockTrackerProxy = NoProxy
    /\ listeners = {}
    /\ probes = <<>>
    /\ clients = 0
    /\ networkClient = NoClient
    /\ proxiesCreated = 0
    /\ uuids = 0
    /\ eipCalls = <<>>
    /\ didChanges = 0
    /\ lastSwitch = [probe |-> 0, returned |-> FALSE, locals |-> NoLocals]
    /\ lastCall = [steps |-> <<>>, probe |-> 0]
    /\ settled = NoOutcome
    /\ everCalled = {}

InitializeProvider == Do(Call("initializeProvider", Undefined))

LookupNetwork == Do(Call("lookupNetwork", Undefined))

SetProviderType ==
    \E type \in INFURA_PROVIDER_TYPES \cup {RPC, "localhost"} :
        Do(Call("setProviderType", type))

SetActiveNetwork ==
    \E n \in 1..(MaxConfigs + 1) : Do(Call("setActiveNetwork", uuid(n)))

ResetConnection == Do(Call("resetConnection", Undefined))

RollbackToPreviousProvider == Do(Call("rollbackToPreviousProvider", Undefined))

UpsertNetworkConfiguration ==
    \E u \in ValidUpserts : Do(Call("upsertNetworkConfiguration", u))

RemoveNetworkConfiguration ==
    \E n \in 1..(MaxConfigs + 1) : Do(Call("removeNetworkConfiguration", uuid(n)))

GetEIP1559Compatibility == Do(Call("getEIP1559Compatibility", Undefined))

\* The block request of a getEIP1559Compatibility call is answered and the
\* call runs to its return.
GetEIP1559CompatibilityReturns ==
    \E c \in 1..Len(eipCalls) :
        \/ \E b \in LatestBlocks :
              Do(Call("getEIP1559Compatibility:return",
                      [call |-> c, rejected |-> FALSE, latestBlock |-> b]))
        \/ Do(Call("getEIP1559Compatibility:return",
                   [call |-> c, rejected |-> TRUE, latestBlock |-> NoBlock]))

\* The Promise.all of a suspended probe settles and the probe runs from its
\* await to its return.
LookupNetworkReturns ==
    \E p \in 1..Len(probes), o \in Outcomes :
        /\ ~probes[p].returned
        /\ Do(Call("lookupNetwork:return", [probe |-> p, outcome |-> o]))

\* Every public operation but getEIP1559Compatibility, and the returns of the
\* suspended probes.
Next ==
    \/ InitializeProvider
    \/ LookupNetwork
    \/ SetProviderType
    \/ SetActiveNetwork
    \/ ResetConnection
    \/ RollbackToPreviousProvider
    \/ UpsertNetworkConfiguration
    \/ RemoveNetworkConfiguration
    \/ LookupNetworkReturns

Spec == Init /\ [][Next]_vars

\* initializeProvider once, then only operations that switch or edit the
\* registry, and the returns of the suspended probes.
InitializeProviderOnce == _provider = 0 /\ InitializeProvider

SetProviderTypeAfterInit == _provider # 0 /\ SetProviderType

SetActiveNetworkAfterInit == _provider # 0 /\ SetActiveNetwork

ResetConnectionAfterInit == _provider # 0 /\ ResetConnection

RollbackToPreviousProviderAfterInit == _provider # 0 /\ RollbackToPreviousProvider

UpsertNetworkConfigurationAfterInit == _provider # 0 /\ UpsertNetworkConfiguration

NextSwitch ==
    \/ InitializeProviderOnce
    \/ SetProviderTypeAfterInit
    \/ SetActiveNetworkAfterInit
    \/ ResetConnectionAfterInit
    \/ RollbackToPreviousProviderAfterInit
    \/ UpsertNetworkConfigurationAfterInit
    \/ LookupNetworkReturns

SpecSwitch == Init /\ [][NextSwitch]_vars

\* upsertNetworkConfiguration of a valid configuration with setActive: true
UpsertAndSetActive ==
    \E u \in {v \in ValidUpserts : v.args.setActive} :
        Do(Call("upsertNetworkConfiguration", u))

\* The switches, the probes and the getEIP1559Compatibility calls.
NextEIP ==
    \/ InitializeProvider
    \/ SetProviderType
    \/ ResetConnection
    \/ RollbackToPreviousProvider
    \/ UpsertAndSetActive
    \/ GetEIP1559Compatibility
    \/ GetEIP1559CompatibilityReturns
    \/ LookupNetworkReturns

SpecEIP == Init /\ [][NextEIP]_vars

\* The Promise.all of a suspended probe settles to any of the outcomes the
\* classification tells apart, and the probe runs to its return.
LookupNetworkSettles ==
    \E p \in 1..Len(probes), o \in AllOutcomes :
        /\ ~probes[p].returned
        /\ Commit(Run(Cur, Call("lookupNetwork:return", [probe |-> p, outcome |-> o])), p)
        /\ settled' = o
        /\ everCalled' = everCalled

\* Probes of built-in and custom networks, with and without a switch during
\* their await, settling to every outcome.
NextProbe ==
    \/ InitializeProvider
    \/ LookupNetwork
    \/ SetProviderType
    \/ UpsertAndSetActive
    \/ LookupNetworkSettles

SpecProbe == Init /\ [][NextProbe]_vars

\* upsertNetworkConfiguration with arguments of every kind
UpsertAnyNetworkConfiguration ==
    \E u \in RegistryUpserts : Do(Call("upsertNetworkConfiguration", u))

\* The registry and the provider configuration: the operations that write
\* them, called with valid and invalid arguments.
NextRegistry ==
    \/ SetProviderType
    \/ SetActiveNetwork
    \/ ResetConnection
    \/ RollbackToPreviousProvider
    \/ UpsertAnyNetworkConfiguration
    \/ RemoveNetworkConfiguration

SpecRegistry == Init /\ [][NextRegistry]_vars

\* The registry alone: upsertNetworkConfiguration and
\* removeNetworkConfiguration, in any order, from the empty registry.
UpsertEntry ==
    \E u \in RegistryUpserts :
        LET m == upsertNetworkConfiguration(Cur, u.nc, u.args)
        IN /\ m.uuids <= MaxEntries
           /\ m.clients <= MaxClients
           /\ Len(m.probes) <= MaxProbes
           /\ Becomes(m, 0)
           /\ settled' = NoOutcome
           /\ everCalled' = everCalled

RemoveEntry ==
    \E n \in 1..(MaxEntries + 1) :
        /\ Becomes(removeNetworkConfiguration(Cur, uuid(n)), 0)
        /\ settled' = NoOutcome
        /\ everCalled' = everCalled

NextEntries == UpsertEntry \/ RemoveEntry

SpecEntries == Init /\ [][NextEntries]_vars

\* The calls of the methods that switch the network, whatever their
\* arguments
SwitchCalls ==
    {Call("setProviderType", type) : type \in INFURA_PROVIDER_TYPES \cup {RPC, "localhost"}}
    \cup {Call("setActiveNetwork", uuid(n)) : n \in 1..(MaxConfigs + 1)}
    \cup {Call("resetConnection", Undefined),
          Call("rollbackToPreviousProvider", Undefined)}
    \cup {Call("upsertNetworkConfiguration", u) :
             u \in {v \in Upserts : v.args.setActive}}

\* The other calls: lookupNetwork, getEIP1559Compatibility,
\* upsertNetworkConfiguration without setActive, removeNetworkConfiguration
OtherCalls ==
    {Call("lookupNetwork", Undefined), Call("getEIP1559Compatibility", Undefined)}
    \cup {Call("upsertNetworkConfiguration", u) :
             u \in {v \in Upserts : ~v.args.setActive}}
    \cup {Call("removeNetworkConfiguration", uuid(n)) : n \in 1..(MaxConfigs + 1)}

\* What the call c, which led to m, adds to the record of what has happened
Happened(c, m) ==
    {"call"}
    \cup (IF c.op = "initializeProvider" THEN {"initializeProvider"} ELSE {})
    \cup (IF c \in SwitchCalls THEN {"switch"} ELSE {})
    \cup {"client" : i \in {j \in DOMAIN m.trace : m.trace[j].kind = "createNetworkClient"}}
    \cup {"request" : i \in {j \in DOMAIN m.trace : m.trace[j].kind = "request"}}

\* The call c runs from the current state and is recorded.
DoAndRecord(c, m) ==
    /\ Commit(m, 0)
    /\ settled' = NoOutcome
    /\ everCalled' = everCalled \cup Happened(c, m)

CallInitializeProvider ==
    LET c == Call("initializeProvider", Undefined) IN DoAndRecord(c, Run(Cur, c))

CallSwitch == \E c \in SwitchCalls : DoAndRecord(c, Run(Cur, c))

CallOther == \E c \in OtherCalls : DoAndRecord(c, Run(Cur, c))

\* The public methods called in any order from construction on, none of the
\* requests sent having been answered yet.
NextSinceConstruction == CallInitializeProvider \/ CallSwitch \/ CallOther

SpecSinceConstruction == Init /\ [][NextSinceConstruction]_vars

\* The state option of the constructor: each of provider, networkDetails
\* and networkConfigurations absent (<<>>) or restored (<<value>>).  A
\* restored provider is a custom network, or, the constructor making no
\* check of it, an rpc configuration without rpcUrl or without chainId.
SuppliedProviders ==
    {<<>>,
     <<Config(RPC, "0x539", "https://x/", "T", "restored", Undefined, "restored")>>,
     <<Config(RPC, "0x539", Undefined, "T", Undefined, Undefined, Undefined)>>,
     <<Config(RPC, Undefined, "https://x/", "T", Undefined, Undefined, Undefined)>>}

SuppliedNetworkConfigurations ==
    {<<>>,
     <<"restored" :> Config(Undefined, "0x539", "https://x/", "T", "restored",
                            Undefined, "restored")>>}

SuppliedStates ==
    [provider : SuppliedProviders,
     networkDetails : {<<>>, <<RestoredNetworkDetails>>},
     networkConfigurations : SuppliedNetworkConfigurations]

\* value || otherwise, for an optional object
OrElse(value, otherwise) == IF value # <<>> THEN value[1] ELSE otherwise

\* The infuraProjectId option: a string, the empty string, absent
InfuraProjectIds == {"K", "", Undefined}

\* The constructor that starts previousProviderStore from the default
\* configuration
constructorWithDefaultPrevious(env, state, infuraProjectId) ==
    [providerStore |-> OrElse(state.provider, buildDefaultProviderConfigState(env)),
     previousProviderStore |-> buildDefaultProviderConfigState(env),
     networkIdStore |-> buildDefaultNetworkIdState,
     networkStatusStore |-> buildDefaultNetworkStatusState,
     networkDetails |-> OrElse(state.networkDetails, buildDefaultNetworkDetailsState),
     networkConfigurationsStore |->
        OrElse(state.networkConfigurations, buildDefaultNetworkConfigurationsState),
     threw |-> ~Truthy(infuraProjectId)]

\* constructor({ messenger, state = {}, infuraProjectId, trackMetaMetricsEvent }):
\* the stores it creates, and whether it threw 'Invalid Infura project ID'
constructor(env, state, infuraProjectId) ==
    LET provider == OrElse(state.provider, buildDefaultProviderConfigState(env))
    IN [providerStore |-> provider,
        previousProviderStore |-> provider,
        networkIdStore |-> buildDefaultNetworkIdState,
        networkStatusStore |-> buildDefaultNetworkStatusState,
        networkDetails |-> OrElse(state.networkDetails, buildDefaultNetworkDetailsState),
        networkConfigurationsStore |->
        OrElse(state.networkConfigurations, buildDefaultNetworkConfigurationsState),
        threw |-> ~Truthy(infuraProjectId)]

\* The state after a construction that did not throw; what of the state
\* option was supplied is recorded.
InitSupplied ==
    \E env \in Envs, state \in SuppliedStates, infuraProjectId \in InfuraProjectIds :
        LET m == constructor(env, state, infuraProjectId)
        IN /\ ~m.threw
           /\ providerStore = m.providerStore
           /\ previousProviderStore = m.previousProviderStore
           /\ networkIdStore = m.networkIdStore
           /\ networkStatusStore = m.networkStatusStore
           /\ networkDetails = m.networkDetails
           /\ networkConfigurationsStore = m.networkConfigurationsStore
           /\ _provider = 0
           /\ _blockTracker = 0
           /\ _providerProxy = NoProxy
           /\ _blockTrackerProxy = NoProxy
           /\ listeners = {}
           /\ probes = <<>>
           /\ clients = 0
           /\ networkClient = NoClient
           /\ proxiesCreated = 0
           /\ uuids = 0
           /\ eipCalls = <<>>
           /\ didChanges = 0
           /\ lastSwitch = [probe |-> 0, returned |-> FALSE, locals |-> NoLocals]
           /\ lastCall = [steps |-> <<>>, probe |-> 0]
           /\ settled = NoOutcome
           /\ everCalled =
                 {"state.provider" : x \in {state.provider} \ {<<>>}}
                 \cup {"state.networkDetails" : x \in {state.networkDetails} \ {<<>>}}

\* Construction with any state option, then initializeProvider and the
\* methods that do not switch
NextConstruction == CallInitializeProvider \/ CallOther

SpecConstruction == InitSupplied /\ [][NextConstruction]_vars

\* Construction with any state option, then initializeProvider and the
\* methods that switch, in any order
NextSupplied == CallInitializeProvider \/ CallSwitch

SpecSupplied == InitSupplied /\ [][NextSupplied]_vars

\* initializeProvider alone: its calls, and the settling of the requests of
\* the probes it started, to every outcome
NextInitialize == CallInitializeProvider \/ LookupNetworkSettles

SpecInitialize == Init /\ [][NextInitialize]_vars

\* state.networkDetails restored with a slot other than 1559 only
RestoredOtherDetails == [EIPS |-> (3675 :> TRUE)]

\* The constructor with the default provider of the environment and
\* state.networkDetails absent, restored, or restored without EIPS[1559]
InitDetails ==
    \E env \in Envs,
       details \in {<<>>, <<RestoredNetworkDetails>>, <<RestoredOtherDetails>>} :
        LET m == constructor(env, [provider |-> <<>>, networkDetails |-> details,
                                   networkConfigurations |-> <<>>], "K")
        IN /\ ~m.threw
           /\ providerStore = m.providerStore
           /\ previousProviderStore = m.previousProviderStore
           /\ networkIdStore = m.networkIdStore
           /\ networkStatusStore = m.networkStatusStore
           /\ networkDetails = m.networkDetails
           /\ networkConfigurationsStore = m.networkConfigurationsStore
           /\ _provider = 0
           /\ _blockTracker = 0
           /\ _providerProxy = NoProxy
           /\ _blockTrackerProxy = NoProxy
           /\ listeners = {}
           /\ probes = <<>>
           /\ clients = 0
           /\ networkClient = NoClient
           /\ proxiesCreated = 0
           /\ uuids = 0
           /\ eipCalls = <<>>
           /\ didChanges = 0
           /\ lastSwitch = [probe |-> 0, returned |-> FALSE, locals |-> NoLocals]
           /\ lastCall = [steps |-> <<>>, probe |-> 0]
           /\ settled = NoOutcome
           /\ everCalled = {}

\* getEIP1559Compatibility before and after initializeProvider, its block
\* request answered before or after the probe's requests
NextCompatibility ==
    \/ InitializeProvider
    \/ GetEIP1559Compatibility
    \/ GetEIP1559CompatibilityReturns
    \/ LookupNetworkReturns

SpecCompatibility == InitDetails /\ [][NextCompatibility]_vars

----------------------------------------------------------------------------
\* Properties.

\* The probe p was suspended while a switch published NetworkDidChange.
Stale(p) == didChanges > probes[p].didChangesAtStart

\* The last step was the return of a probe that was stale / not stale.
StaleProbeReturned == lastCall.probe # 0 /\ Stale(lastCall.probe)

FreshProbeReturned == lastCall.probe # 0 /\ ~Stale(lastCall.probe)

\* C1: a lookupNetwork call that was suspended while a switch published
\* NetworkDidChange writes nothing to networkStatus, networkId or
\* networkDetails when its requests settle, whatever they settle to, and
\* publishes neither InfuraIsBlocked nor InfuraIsUnblocked.
C1_StaleProbeIsDiscarded ==
    StaleProbeReturned =>
        /\ Written(lastCall.steps) = {}
        /\ Published(lastCall.steps) = <<>>

C1_Witness ==
    /\ StaleProbeReturned
    /\ probes[lastCall.probe].returned
    /\ networkStatusStore = Available

AllReturned == \A p \in DOMAIN probes : probes[p].returned

\* What EIPS[1559] holds once a probe with these locals has stored them
StoredEIP1559(locals) ==
    IF locals.networkStatus = Available
    THEN IF locals.supportsEIP1559 THEN "true" ELSE "false"
    ELSE Undefined

Positions(kinds) ==
    {i \in DOMAIN lastCall.steps : lastCall.steps[i][1] \in kinds}

PositionsOf(step) == {i \in DOMAIN lastCall.steps : lastCall.steps[i] = step}

\* C3: within a switch, NetworkWillChange is published, then networkId,
\* networkStatus and networkDetails are reset to their defaults, then the new
\* client is built and installed in both proxies, then NetworkDidChange is
\* published; the probe of the switch starts after that and the switch
\* itself publishes neither InfuraIsBlocked nor InfuraIsUnblocked, which only
\* the return of a probe publishes.
C3_OrderWithinSwitch ==
    LET will     == PositionsOf(<<"publish", NetworkWillChange>>)
        did      == PositionsOf(<<"publish", NetworkDidChange>>)
        resets   == Positions({"reset"})
        builds   == Positions({"createNetworkClient"})
        installs == Positions({"setTarget", "createProxy"})
        starts   == Positions({"subscribe", "request"})
        infura   == PositionsOf(<<"publish", InfuraIsBlocked>>)
                    \cup PositionsOf(<<"publish", InfuraIsUnblocked>>)
    IN /\ (will # {} \/ did # {}) =>
            /\ Cardinality(will) = 1 /\ Cardinality(did) = 1
            /\ {lastCall.steps[i][2] : i \in resets} =
                  {"networkId", "networkStatus", "networkDetails"}
            /\ Positions({"write"}) = {}
            /\ Cardinality(builds) = 1
            /\ {lastCall.steps[i][2] : i \in installs} = {"provider", "blockTracker"}
            /\ starts # {}
            /\ infura = {}
            /\ \A w \in will, r \in resets, b \in builds, i \in installs,
                  d \in did, s \in starts :
                  w < r /\ r < b /\ b < i /\ i < d /\ d < s
            /\ lastCall.probe = 0
            /\ lastSwitch.probe # 0
            /\ probes[lastSwitch.probe].didChangesAtStart = didChanges
       /\ infura # {} => lastCall.probe # 0

C3_Witness ==
    /\ Published(lastCall.steps) = <<NetworkWillChange, NetworkDidChange>>
    /\ Positions({"setTarget"}) # {}
    /\ lastSwitch.probe = 2

C5_CustomAlwaysUnblocked ==
    (FreshProbeReturned /\ ~probes[lastCall.probe].isInfura) =>
        Published(lastCall.steps) = <<InfuraIsUnblocked>>

C5_Witness ==
    /\ FreshProbeReturned
    /\ ~probes[lastCall.probe].isInfura
    /\ networkStatusStore = Blocked
    /\ Published(lastCall.steps) = <<InfuraIsUnblocked>>

\* The events the last call published
PublishedEvents ==
    {Published(lastCall.steps)[i] : i \in DOMAIN Published(lastCall.steps)}

C7_AvailableHasIdAndEIP1559 ==
    networkStatusStore = Available =>
        /\ networkIdStore # Null
        /\ assertNetworkId(networkIdStore)
        /\ EIP1559(networkDetails) \in {"true", "false"}

C7_Witness ==
    /\ FreshProbeReturned
    /\ lastCall.probe = lastSwitch.probe
    /\ networkStatusStore = Available
    /\ EIP1559(networkDetails) = "false"

\* C8: after a probe that is not stale returns with a status other than
\* Available, networkId is null and EIPS[1559] is undefined.
C8_NotAvailableHasNeither ==
    (FreshProbeReturned /\ networkStatusStore # Available) =>
        /\ networkIdStore = Null
        /\ EIP1559(networkDetails) = Undefined
        /\ networkDetails = buildDefaultNetworkDetailsState

C8_Witness ==
    /\ FreshProbeReturned
    /\ lastCall.probe = lastSwitch.probe
    /\ networkStatusStore = Unavailable
    /\ networkIdStore = Null

\* networkId, networkStatus and EIPS[1559]
Derived == <<networkIdStore, networkStatusStore, EIP1559(networkDetails)>>

DerivedDefaults ==
    <<buildDefaultNetworkIdState, buildDefaultNetworkStatusState, Undefined>>

\* A step after which a switch has just returned
SwitchReturns ==
    \E i \in DOMAIN lastCall'.steps :
        lastCall'.steps[i] = <<"publish", NetworkDidChange>>

\* A step that puts a value other than its default in networkId,
\* networkStatus or EIPS[1559]
Repopulates == Derived' # Derived /\ Derived' # DerivedDefaults

\* C9 as stated: when a switch returns, networkId is null, networkStatus is
\* Unknown and EIPS[1559] is undefined, and only the return of a lookupNetwork
\* probe puts other values in them.
C9_Original ==
    [][/\ SwitchReturns => Derived' = DerivedDefaults
       /\ Repopulates => lastCall'.probe # 0]_vars

\* C9: when a switch returns, networkId is null, networkStatus is Unknown
\* and EIPS[1559] is undefined; only the return of a lookupNetwork probe
\* that is not stale puts other values in them, but for EIPS[1559], which
\* the return of a getEIP1559Compatibility call sets too.
C9_ClearedThenRepopulated ==
    [][/\ SwitchReturns => Derived' = DerivedDefaults
       /\ Repopulates =>
             \/ lastCall'.probe # 0 /\ didChanges = probes[lastCall'.probe].didChangesAtStart
             \/ /\ Len(eipCalls') < Len(eipCalls)
                /\ networkIdStore' = networkIdStore
                /\ networkStatusStore' = networkStatusStore]_vars

C9_Witness ==
    /\ Published(lastCall.steps) = <<NetworkWillChange, NetworkDidChange>>
    /\ Derived = DerivedDefaults
    /\ lastSwitch.probe # 0 /\ ~lastSwitch.returned
    /\ eipCalls # <<>>
    /\ \E p \in DOMAIN probes : probes[p].returned /\ ~probes[p].networkChanged

\* C10: getProviderAndBlockTracker returns null or the first proxy ever
\* created for the provider and the first ever created for the block tracker,
\* and returns these two from the first configuration of a provider on, after
\* any switches, resets, rollbacks and initializeProvider calls: no proxy is
\* ever created to replace one, they are retargeted.
C10_ProxiesAreStable ==
    /\ getProviderAndBlockTracker(Cur).provider \in {0, 1}
    /\ getProviderAndBlockTracker(Cur).blockTracker \in {0, 2}
    /\ proxiesCreated <= 2
    /\ _provider # 0 =>
          /\ getProviderAndBlockTracker(Cur).provider = 1
          /\ getProviderAndBlockTracker(Cur).blockTracker = 2
          /\ _providerProxy.target = _provider
          /\ _blockTrackerProxy.target = _blockTracker

C10_Witness ==
    /\ clients = MaxClients
    /\ getProviderAndBlockTracker(Cur).provider = 1
    /\ getProviderAndBlockTracker(Cur).blockTracker = 2
    /\ _providerProxy.target = clients
    /\ _blockTrackerProxy.target = clients
    /\ Positions({"setTarget"}) # {}

\* The last step was the return of a probe that was not stale and whose
\* requests were rejected / fulfilled.
FreshProbeFailed == FreshProbeReturned /\ ~settled.fulfilled

FreshProbeSucceeded == FreshProbeReturned /\ settled.fulfilled

\* The error's message is the JSON text of an object whose error field is the
\* blocked sentinel.
HasBlockedBody(error) == error.hasMessage /\ error.message = BlockedBody

\* C11 as stated: a probe whose error has a message that parses to an object
\* with error = countryBlocked stores Blocked, whatever else the error has or
\* lacks.
C11_Original ==
    (FreshProbeFailed /\ HasBlockedBody(settled.error)) =>
        networkStatusStore = Blocked

\* C11: a probe whose error has a code property and a message that parses
\* to an object with error = countryBlocked stores Blocked, whatever the
\* code is; when the error has no code property it stores Unknown.
C11_BlockedNeedsCode ==
    (FreshProbeFailed /\ HasBlockedBody(settled.error)) =>
        networkStatusStore = IF settled.error.hasCode THEN Blocked ELSE Unknown

C11_Witness ==
    /\ FreshProbeFailed
    /\ settled.error = Error(TRUE, RpcInternal, TRUE, BlockedBody)
    /\ networkStatusStore = Blocked

\* The strings among AllNetVersions that are decimal numbers
DecimalNetVersions == {<<"1">>, <<"4", "2">>}

\* C12: a probe stores Available if and only if both requests succeed and
\* the network id received is a decimal numeric string, and it then stores
\* that id; when both succeed and the id is not one, the status is not
\* Available and networkId is null.
C12_AvailableIffDecimalId ==
    FreshProbeReturned =>
        /\ networkStatusStore = Available
              <=> (settled.fulfilled /\ settled.netId \in DecimalNetVersions)
        /\ networkStatusStore = Available => networkIdStore = settled.netId
        /\ networkStatusStore # Available => networkIdStore = Null

C12_Witness ==
    /\ FreshProbeSucceeded
    /\ settled.netId = <<"0", "x", "1">>
    /\ networkStatusStore # Available
    /\ networkIdStore = Null

\* C13: for a probe whose error is not classified Blocked, an error with a
\* code and a message stores Unknown when the code is the RPC-internal one
\* and Unavailable otherwise, an error without a code or without a message
\* stores Unknown; an error with the RPC-internal code and the blocked body
\* stores Blocked.
C13_UnknownAndUnavailable ==
    FreshProbeFailed =>
        LET e == settled.error IN
        /\ (e.hasCode /\ e.hasMessage /\ ~HasBlockedBody(e)) =>
              networkStatusStore =
                 IF e.code = RpcInternal THEN Unknown ELSE Unavailable
        /\ ~(e.hasCode /\ e.hasMessage) => networkStatusStore = Unknown
        /\ (e.hasCode /\ e.code = RpcInternal /\ HasBlockedBody(e)) =>
              networkStatusStore = Blocked

C13_Witness ==
    /\ FreshProbeFailed
    /\ settled.error = Error(TRUE, "-32000", FALSE, Undefined)
    /\ networkStatusStore = Unknown
    /\ <<"warn", "could not determine network status">> \in
          {lastCall.steps[i] : i \in DOMAIN lastCall.steps}

\* C14: the return of a lookupNetwork call throws nothing, whatever its
\* requests settled to, nor does a call that sent the requests of a probe;
\* a probe that is not stale puts a value in networkStatus once, and it is
\* one of Available, Blocked, Unknown, Unavailable.
C14_ProbeNeverThrows ==
    /\ (lastCall.probe # 0 \/ Positions({"request"}) # {}) =>
          Positions({"throw"}) = {}
    /\ FreshProbeReturned =>
          /\ Cardinality(PositionsOf(<<"reset", "networkStatus">>)
                         \cup PositionsOf(<<"write", "networkStatus">>)) = 1
          /\ networkStatusStore \in NetworkStatus

C14_Witness ==
    /\ FreshProbeFailed
    /\ settled.error = Error(FALSE, Undefined, FALSE, Undefined)
    /\ Positions({"throw"}) = {}
    /\ networkStatusStore = Unknown

\* The calls with invalid input: upsertNetworkConfiguration with a chainId
\* that is not a safe 0x-hex string, no rpcUrl, an rpcUrl that is no URL, no
\* ticker, no referrer or no source; setProviderType with rpc or a name that
\* is no Infura type; setActiveNetwork with an id the registry does not hold.
InvalidCalls ==
    {Call("upsertNetworkConfiguration", u) : u \in InvalidUpserts \cup UnparseableUpserts}
    \cup {Call("setProviderType", type) : type \in {RPC, "localhost"}}
    \cup {Call("setActiveNetwork", uuid(n)) :
             n \in {k \in 1..(MaxConfigs + 1) :
                       uuid(k) \notin DOMAIN networkConfigurationsStore}}

\* The call that led from m to r threw and did nothing else: the stores, the
\* probes and the clients of r are those of m, and the throw is its one step.
RejectedWithoutEffect(m, r) ==
    /\ r.threw
    /\ r.providerStore = m.providerStore
    /\ r.previousProviderStore = m.previousProviderStore
    /\ r.networkIdStore = m.networkIdStore
    /\ r.networkStatusStore = m.networkStatusStore
    /\ r.networkDetails = m.networkDetails
    /\ r.networkConfigurationsStore = m.networkConfigurationsStore
    /\ r.probes = m.probes
    /\ Steps(r.trace) = <<(<<"throw", "Error">>)>>

\* C15: a mutating call with invalid input, made in any reachable state,
\* throws before it returns, leaves the six stores as they were, publishes
\* no event, calls no trackEvent and starts no probe.
C15_Original ==
    \A c \in InvalidCalls : RejectedWithoutEffect(Cur, Run(Cur, c))

\* The calls that set a provider configuration, and the fields each is to
\* leave in providerStore when made in the current state
SetConfigCalls ==
    {Call("setProviderType", type) : type \in INFURA_PROVIDER_TYPES}
    \cup {Call("setActiveNetwork", id) : id \in DOMAIN networkConfigurationsStore}
    \cup {Call("resetConnection", Undefined)}
    \cup {Call("upsertNetworkConfiguration", u) :
             u \in {v \in RegistryUpserts : v.args.setActive}}

HoldsNewConfig(r, c) ==
    CASE c.op = "setProviderType" ->
            /\ r.providerStore.type = c.arg
            /\ r.providerStore.chainId = IF c.arg = "mainnet" THEN "0x1" ELSE "0x5"
      [] c.op = "setActiveNetwork" ->
            /\ r.providerStore.type = RPC
            /\ r.providerStore.id = c.arg
            /\ r.providerStore.rpcUrl = networkConfigurationsStore[c.arg].rpcUrl
            /\ r.providerStore.chainId = networkConfigurationsStore[c.arg].chainId
      [] c.op = "resetConnection" -> r.providerStore = providerStore
      [] c.op = "upsertNetworkConfiguration" ->
            /\ r.providerStore.type = RPC
            /\ r.providerStore.id = r.returns
            /\ r.providerStore.rpcUrl = c.arg.nc.rpcUrl
            /\ r.providerStore.chainId = c.arg.nc.chainId
            /\ r.providerStore.ticker = c.arg.nc.ticker
            /\ r.providerStore.nickname = c.arg.nc.nickname

\* C16: in every reachable state, each call of setActiveNetwork,
\* setProviderType, resetConnection or upsertNetworkConfiguration with
\* setActive that does not throw leaves in previousProviderStore what
\* providerStore held before it, and in providerStore the new configuration.
C16_SnapshotThenNewConfig ==
    \A c \in SetConfigCalls :
        LET r == Run(Cur, c)
        IN ~r.threw =>
              /\ r.previousProviderStore = providerStore
              /\ HoldsNewConfig(r, c)

\* A custom network was made active while a built-in one was: the state
\* after the call holds both configurations.
C16_Witness ==
    /\ <<"putState", "previousProviderStore">> \in
          {lastCall.steps[i] : i \in DOMAIN lastCall.steps}
    /\ providerStore.type = RPC
    /\ providerStore.rpcUrl = "https://foo/"
    /\ previousProviderStore.type = "mainnet"

\* The last call was rollbackToPreviousProvider: it wrote providerStore
\* first, which only rollbackToPreviousProvider does, and switched.
RolledBack ==
    /\ Len(lastCall.steps) > 1
    /\ lastCall.steps[1] = <<"putState", "provider">>
    /\ lastCall.steps[2] = <<"publish", NetworkWillChange>>

\* C17: in every reachable state, rollbackToPreviousProvider leaves in
\* providerStore what previousProviderStore holds and leaves
\* previousProviderStore as it is; a second rollbackToPreviousProvider
\* changes neither, so that when the two stores differed before the first
\* rollback, providerStore after the second is not what it was before the
\* first.
C17_RollbackDoesNotOscillate ==
    LET m1 == rollbackToPreviousProvider(Cur)
        m2 == rollbackToPreviousProvider(m1)
    IN /\ m1.providerStore = previousProviderStore
       /\ m1.previousProviderStore = previousProviderStore
       /\ m2.providerStore = m1.providerStore
       /\ m2.previousProviderStore = previousProviderStore
       /\ providerStore # previousProviderStore => m2.providerStore # providerStore

\* A rollback to the built-in network from a custom one happened (the first
\* switch started a probe of a custom network, the rollback one of a built-in
\* network): both stores hold the built-in configuration, and the custom one
\* is in neither.
C17_Witness ==
    /\ RolledBack
    /\ Len(probes) = 2
    /\ ~probes[1].isInfura
    /\ probes[2].isInfura
    /\ providerStore.type = "mainnet"
    /\ previousProviderStore = providerStore

\* C18 as stated: on a built-in network A, setActiveNetwork of a custom
\* network C and then rollbackToPreviousProvider leave the configuration of
\* A in providerStore and that of C in previousProviderStore.
C18_Original ==
    isInfuraProviderType(providerStore.type) =>
        \A id \in DOMAIN networkConfigurationsStore :
            LET r1 == setActiveNetwork(Cur, id)
                r2 == rollbackToPreviousProvider(r1)
            IN /\ r2.providerStore = providerStore
               /\ r2.previousProviderStore = r1.providerStore

\* C18: on a built-in network A, setActiveNetwork of a custom network C and
\* then rollbackToPreviousProvider leave the configuration of A in
\* providerStore and in previousProviderStore; setActiveNetwork had left
\* that of C in providerStore.
C18_RollbackRestoresBuiltIn ==
    isInfuraProviderType(providerStore.type) =>
        \A id \in DOMAIN networkConfigurationsStore :
            LET r1 == setActiveNetwork(Cur, id)
                r2 == rollbackToPreviousProvider(r1)
            IN /\ r1.providerStore.type = RPC
               /\ r1.providerStore.id = id
               /\ r2.providerStore = providerStore
               /\ r2.previousProviderStore = providerStore

\* The custom network of the registry was made active from mainnet and
\* rolled back: mainnet is in both stores.
C18_Witness ==
    /\ RolledBack
    /\ Len(probes) = 2
    /\ ~probes[1].isInfura /\ probes[2].isInfura
    /\ \E id \in DOMAIN networkConfigurationsStore :
          networkConfigurationsStore[id].rpcUrl = "https://foo/"
    /\ providerStore.type = "mainnet"
    /\ previousProviderStore.type = "mainnet"
    /\ previousProviderStore.rpcUrl # "https://foo/"

\* Configurations _setProviderConfig is called with: those of the built-in
\* networks and of the registry entries, and the one in providerStore
SwitchTargets ==
    {Config(type, BUILT_IN_INFURA_NETWORKS[type].chainId, "", "ETH", "",
            Undefined, Undefined) : type \in INFURA_PROVIDER_TYPES}
    \cup {[networkConfigurationsStore[id] EXCEPT !.type = RPC] :
             id \in DOMAIN networkConfigurationsStore}
    \cup {providerStore}

\* C19: in every reachable state, a switch to a configuration made through
\* _setProviderConfig (directly, or by a call of setProviderType,
\* setActiveNetwork, resetConnection or upsertNetworkConfiguration with
\* setActive that does not throw), followed by rollbackToPreviousProvider,
\* leaves in providerStore what it held before the switch.
C19_SwitchThenRollback ==
    /\ \A pc \in SwitchTargets :
          LET r == _setProviderConfig(Cur, pc)
          IN /\ r.providerStore = pc
             /\ rollbackToPreviousProvider(r).providerStore = providerStore
    /\ \A c \in SetConfigCalls :
          LET r == Run(Cur, c)
          IN ~r.threw => rollbackToPreviousProvider(r).providerStore = providerStore

\* From the localhost network of a test build, a switch to a built-in
\* network was rolled back: providerStore holds the localhost configuration.
C19_Witness ==
    /\ RolledBack
    /\ Len(probes) = 2
    /\ probes[1].isInfura /\ ~probes[2].isInfura
    /\ providerStore = buildDefaultProviderConfigState("IN_TEST")

\* Two rpcUrls of the model that are the same ignoring case
SameUrlIgnoringCase(a, b) ==
    \/ a = b
    \/ {a, b} = {"https://foo/", "https://Foo/"}

\* C20: in every reachable state, upsertNetworkConfiguration with an rpcUrl
\* that is the rpcUrl of a registry entry ignoring case leaves the registry
\* with as many entries as it had, and, when it does not throw, returns the
\* id of that entry, keeps the entry under that id with the fields of the
\* call, and calls no trackEvent.
C20_UpsertIsIdempotentOnUrl ==
    \A u \in RegistryUpserts :
        \A id \in DOMAIN networkConfigurationsStore :
            SameUrlIgnoringCase(networkConfigurationsStore[id].rpcUrl, u.nc.rpcUrl) =>
                LET r == upsertNetworkConfiguration(Cur, u.nc, u.args)
                IN /\ Cardinality(DOMAIN r.networkConfigurationsStore)
                         = Cardinality(DOMAIN networkConfigurationsStore)
                   /\ ~r.threw =>
                         /\ r.returns = id
                         /\ id \in DOMAIN r.networkConfigurationsStore
                         /\ r.networkConfigurationsStore[id].id = id
                         /\ r.networkConfigurationsStore[id].rpcUrl = u.nc.rpcUrl
                         /\ r.networkConfigurationsStore[id].ticker = u.nc.ticker
                         /\ \A i \in DOMAIN r.trace : r.trace[i].kind # "trackEvent"

\* The entry made active under "https://foo/" was upserted again as
\* "https://Foo/": the registry has the one entry, under the same id, and the
\* call tracked no event.
C20_Witness ==
    /\ lastCall.steps = <<(<<"putState", "networkConfigurations">>)>>
    /\ providerStore.rpcUrl = "https://foo/"
    /\ providerStore.id \in DOMAIN networkConfigurationsStore
    /\ networkConfigurationsStore[providerStore.id].rpcUrl = "https://Foo/"
    /\ Cardinality(DOMAIN networkConfigurationsStore) = 1

\* The payloads of the trackEvent calls among the steps of a call, in order
Tracked(trace) ==
    SelectSeq(trace, LAMBDA s : s.kind = "trackEvent")

\* An entry of the registry has the rpcUrl, ignoring case
Matched(rpcUrl) ==
    \E id \in DOMAIN networkConfigurationsStore :
        SameUrlIgnoringCase(networkConfigurationsStore[id].rpcUrl, rpcUrl)

RanSwitchSequence(r) ==
    /\ Published(Steps(r.trace)) = <<NetworkWillChange, NetworkDidChange>>
    /\ r.networkIdStore = buildDefaultNetworkIdState
    /\ r.networkStatusStore = buildDefaultNetworkStatusState
    /\ r.networkDetails = buildDefaultNetworkDetailsState
    /\ Len(r.probes) = Len(probes) + 1

\* C22: in every reachable state, setActiveNetwork of an id of the registry
\* leaves in providerStore a configuration of type rpc with the entry's
\* rpcUrl, chainId and ticker, runs the switch sequence and returns the
\* entry's rpcUrl; upsertNetworkConfiguration that does not throw does so
\* with the fields of its arguments and the id it returns when setActive is
\* true, and when setActive is false leaves providerStore and
\* previousProviderStore as they were and publishes nothing, whether or not
\* its rpcUrl is that of the active network.
C22_SetActiveSwitches ==
    /\ \A id \in DOMAIN networkConfigurationsStore :
          LET r == setActiveNetwork(Cur, id)
              entry == networkConfigurationsStore[id]
          IN /\ ~r.threw
             /\ r.providerStore.type = RPC
             /\ r.providerStore.rpcUrl = entry.rpcUrl
             /\ r.providerStore.chainId = entry.chainId
             /\ r.providerStore.ticker = entry.ticker
             /\ r.returns = entry.rpcUrl
             /\ RanSwitchSequence(r)
    /\ \A u \in RegistryUpserts :
          LET r == upsertNetworkConfiguration(Cur, u.nc, u.args)
          IN ~r.threw =>
                IF u.args.setActive
                THEN /\ r.providerStore.type = RPC
                     /\ r.providerStore.id = r.returns
                     /\ r.providerStore.rpcUrl = u.nc.rpcUrl
                     /\ r.providerStore.chainId = u.nc.chainId
                     /\ r.providerStore.ticker = u.nc.ticker
                     /\ RanSwitchSequence(r)
                ELSE /\ r.providerStore = providerStore
                     /\ r.previousProviderStore = previousProviderStore
                     /\ Published(Steps(r.trace)) = <<>>
                     /\ r.probes = probes

\* The active network "https://foo/" was upserted again with other fields
\* and setActive false: providerStore still has the ticker it was made
\* active with, the registry entry has the new one.
C22_Witness ==
    /\ lastCall.steps = <<(<<"putState", "networkConfigurations">>)>>
    /\ providerStore.type = RPC
    /\ providerStore.id \in DOMAIN networkConfigurationsStore
    /\ providerStore.ticker = "T"
    /\ networkConfigurationsStore[providerStore.id].ticker = "U"

\* C23: in every state reached from the empty registry by
\* upsertNetworkConfiguration and removeNetworkConfiguration calls, every
\* key of the registry is the id of its entry, no two entries have the same
\* id, and no two entries have rpcUrls that are the same ignoring case.
C23_RegistryKeysAndUrlsUnique ==
    /\ \A id \in DOMAIN networkConfigurationsStore :
          networkConfigurationsStore[id].id = id
    /\ \A a, b \in DOMAIN networkConfigurationsStore :
          a # b =>
             /\ networkConfigurationsStore[a].id # networkConfigurationsStore[b].id
             /\ ~SameUrlIgnoringCase(networkConfigurationsStore[a].rpcUrl,
                                     networkConfigurationsStore[b].rpcUrl)

\* Two entries, one of them upserted again, in either case: it is still
\* one entry, under its first id.
C23_Witness ==
    /\ Cardinality(DOMAIN networkConfigurationsStore) = 2
    /\ lastCall.steps = <<(<<"putState", "networkConfigurations">>)>>
    /\ \E a, b \in DOMAIN networkConfigurationsStore :
          /\ networkConfigurationsStore[a].rpcUrl = "https://Foo/"
          /\ networkConfigurationsStore[b].rpcUrl = "https://x/"

\* A provider configuration with what its type requires: an rpcUrl for rpc,
\* the chain id of the network for a built-in type
HasWhatItsTypeRequires(config) ==
    /\ config.type = RPC => config.rpcUrl \notin {Undefined, Null, ""}
    /\ config.type = "mainnet" => config.chainId = "0x1"
    /\ config.type = "goerli" => config.chainId = "0x5"

\* C24: in every state reached from the constructor's default provider
\* configuration by the public operations, valid and invalid arguments
\* included, providerStore has a non-empty rpcUrl when its type is rpc and
\* the chain id of the network when its type is a built-in one.
C24_ProviderConfigStaysValid ==
    /\ providerStore.type \in INFURA_PROVIDER_TYPES \cup {RPC}
    /\ HasWhatItsTypeRequires(providerStore)

\* goerli was selected, then a custom network made active.
C24_Witness ==
    /\ providerStore.type = RPC
    /\ providerStore.rpcUrl = "https://foo/"
    /\ previousProviderStore.type = "goerli"
    /\ previousProviderStore.chainId = "0x5"

\* C25: in every reachable state, removeNetworkConfiguration of an id
\* leaves the registry without that id and with every other entry as it
\* was (the whole registry, when it did not hold the id), does not throw,
\* leaves providerStore, previousProviderStore, networkId, networkStatus and
\* networkDetails as they were, publishes no event, starts no probe and
\* builds no provider, whether or not the id is that of the active network.
C25_RemoveOnlyRemoves ==
    \A n \in 1..(MaxEntries + 1) :
        LET id == uuid(n)
            r  == removeNetworkConfiguration(Cur, id)
        IN /\ ~r.threw
           /\ DOMAIN r.networkConfigurationsStore
                 = DOMAIN networkConfigurationsStore \ {id}
           /\ \A o \in DOMAIN r.networkConfigurationsStore :
                 r.networkConfigurationsStore[o] = networkConfigurationsStore[o]
           /\ r.providerStore = providerStore
           /\ r.previousProviderStore = previousProviderStore
           /\ r.networkIdStore = networkIdStore
           /\ r.networkStatusStore = networkStatusStore
           /\ r.networkDetails = networkDetails
           /\ Steps(r.trace) = <<(<<"putState", "networkConfigurations">>)>>
           /\ r.probes = probes
           /\ r.clients = clients
           /\ r._provider = _provider
           /\ r._providerProxy = _providerProxy

\* The entry of the active network was removed and the other entry kept:
\* providerStore still holds the configuration made from the removed entry.
C25_Witness ==
    /\ lastCall.steps = <<(<<"putState", "networkConfigurations">>)>>
    /\ providerStore.type = RPC
    /\ providerStore.id # Undefined
    /\ providerStore.id \notin DOMAIN networkConfigurationsStore
    /\ Cardinality(DOMAIN networkConfigurationsStore) = 1
    /\ Len(probes) = 1

\* C26: in every reachable state, resetConnection does not throw, leaves
\* providerStore as it was and previousProviderStore equal to it, runs the
\* switch sequence once, builds one network client of the kind the
\* configuration asks for and installs it in both proxies, and starts a
\* probe on it.
C26_ResetConnectionRebuilds ==
    LET r == resetConnection(Cur)
    IN /\ ~r.threw
       /\ r.providerStore = providerStore
       /\ r.previousProviderStore = providerStore
       /\ RanSwitchSequence(r)
       /\ r.clients = clients + 1
       /\ r._provider = r.clients /\ r._blockTracker = r.clients
       /\ r._providerProxy.target = r._provider
       /\ r._blockTrackerProxy.target = r._blockTracker
       /\ r.networkClient.type
             = IF providerStore.type = RPC THEN "custom" ELSE "infura"
       /\ r.probes[Len(r.probes)].provider = r._provider
       /\ ~r.probes[Len(r.probes)].returned

\* resetConnection was called on the constructor's mainnet configuration,
\* which no other call passes to _setProviderConfig, after a first switch.
C26_Witness ==
    /\ Len(lastCall.steps) > 0
    /\ lastCall.steps[1] = <<"putState", "previousProviderStore">>
    /\ providerStore = buildDefaultProviderConfigState("production")
    /\ previousProviderStore = providerStore
    /\ clients = 2
    /\ _providerProxy.target = 2
    /\ Len(probes) = 2

\* No provider or block tracker is returned, no network client has been
\* built and no request has been sent.
NothingBuiltOrSent ==
    /\ getProviderAndBlockTracker(Cur) = [provider |-> 0, blockTracker |-> 0]
    /\ _provider = 0 /\ _blockTracker = 0
    /\ clients = 0
    /\ "client" \notin everCalled
    /\ "request" \notin everCalled

\* C27 as stated: in every reachable state in which initializeProvider has
\* not been called, getProviderAndBlockTracker returns null twice, no
\* provider has been built and no request sent, whatever else was called.
C27_Original ==
    "initializeProvider" \notin everCalled => NothingBuiltOrSent

\* C27: in every reachable state in which neither initializeProvider nor a
\* switching method (setProviderType, setActiveNetwork, resetConnection,
\* rollbackToPreviousProvider, upsertNetworkConfiguration with setActive)
\* has been called, getProviderAndBlockTracker returns null twice, no
\* provider has been built and no request sent, whatever else was called.
C27_NothingBeforeInitOrSwitch ==
    ("initializeProvider" \notin everCalled /\ "switch" \notin everCalled)
        => NothingBuiltOrSent

\* Before initializeProvider or any switch, a network was added to the
\* registry and lookupNetwork called: it found no provider.
C27_Witness ==
    /\ "initializeProvider" \notin everCalled
    /\ "switch" \notin everCalled
    /\ DOMAIN networkConfigurationsStore # {}
    /\ lastCall.steps = <<(<<"warn", "missing provider">>)>>
    /\ NothingBuiltOrSent

\* No method has been called since the constructor returned.
JustConstructed == "call" \notin everCalled

\* C28 as stated: just after a construction that did not throw, whatever
\* state was supplied, previousProviderStore equals providerStore, networkId
\* is null, networkStatus is Unknown and EIPS[1559] is undefined.
C28_Original ==
    JustConstructed =>
        /\ previousProviderStore = providerStore
        /\ networkIdStore = Null
        /\ networkStatusStore = Unknown
        /\ EIP1559(networkDetails) = Undefined

\* C28: just after a construction that did not throw, whatever state was
\* supplied, previousProviderStore equals providerStore, networkId is null
\* and networkStatus is Unknown; EIPS[1559] is undefined when the state
\* supplied no networkDetails, and networkDetails is the one supplied
\* otherwise.
C28_ConstructedState ==
    JustConstructed =>
        /\ previousProviderStore = providerStore
        /\ networkIdStore = Null
        /\ networkStatusStore = Unknown
        /\ IF "state.networkDetails" \in everCalled
           THEN networkDetails = RestoredNetworkDetails
           ELSE EIP1559(networkDetails) = Undefined

\* Constructed with a restored custom provider and restored networkDetails.
C28_Witness ==
    /\ JustConstructed
    /\ {"state.provider", "state.networkDetails"} \subseteq everCalled
    /\ providerStore.nickname = "restored"
    /\ previousProviderStore = providerStore
    /\ EIP1559(networkDetails) = "true"

\* The controller m when its next call starts
AtNextCall(m) == [m EXCEPT !.trace = <<>>, !.threw = FALSE, !.returns = Undefined]

\* What C29 compares: the stores, the identities of the proxies, whether
\* they target the pair built last and what it was built from, and the
\* probes subscribed to NetworkDidChange
Installed(m) ==
    [provider              |-> m.providerStore,
     previousProviderStore |-> m.previousProviderStore,
     networkId             |-> m.networkIdStore,
     networkStatus         |-> m.networkStatusStore,
     networkDetails        |-> m.networkDetails,
     networkConfigurations |-> m.networkConfigurationsStore,
     proxies               |-> <<m._providerProxy.id, m._blockTrackerProxy.id>>,
     targetLatest          |-> /\ m._providerProxy.target = m.clients
                               /\ m._blockTrackerProxy.target = m.clients,
     builtFrom             |-> m.networkClient,
     subscribed            |-> Cardinality(m.listeners)]

\* initializeProvider called in m and, when it reached its await, resumed
\* with the outcome o
initializeProviderWith(m, o) ==
    LET r == initializeProvider(AtNextCall(m))
    IN IF Len(r.probes) > Len(m.probes)
       THEN lookupNetworkAfterAwait(AtNextCall(r), Len(r.probes), o)
       ELSE r

\* C29: in every reachable state and for every outcome of the requests,
\* initializeProvider called twice, the second call after the first
\* returned or while it awaits, leaves the six stores, the identities of the
\* two proxies, their targeting the pair built last, what that pair was
\* built from and the subscriptions to NetworkDidChange as one call does.
C29_InitializeProviderIdempotent ==
    \A o \in Outcomes :
        LET once  == initializeProviderWith(Cur, o)
            twice == initializeProviderWith(once, o)
            r1    == initializeProvider(Cur)
            r2    == initializeProvider(AtNextCall(r1))
            p     == Len(r2.probes)
            both  == IF p = Len(probes) + 2
                     THEN lookupNetworkAfterAwait(
                              AtNextCall(lookupNetworkAfterAwait(AtNextCall(r2), p - 1, o)),
                              p, o)
                     ELSE r2
        IN /\ Installed(twice) = Installed(once)
           /\ Installed(both) = Installed(once)
           /\ once.threw = twice.threw

\* initializeProvider was called twice and nothing switched: the proxies
\* created by the first call target the pair built by the second.
C29_Witness ==
    /\ "initializeProvider" \in everCalled
    /\ "switch" \notin everCalled
    /\ clients = 2
    /\ Len(probes) = 2
    /\ _providerProxy = [id |-> 1, target |-> 2]
    /\ _blockTrackerProxy = [id |-> 2, target |-> 2]

\* C30: when initializeProvider is the only method called, no call and no
\* resumption publishes NetworkWillChange or NetworkDidChange; and when the
\* network is a built-in one and both requests of a probe succeeded with a
\* decimal net_version, the probe's return publishes InfuraIsUnblocked and
\* nothing else, and leaves networkStatus Available, networkId the
\* net_version received, and EIPS[1559] true if the block received has
\* baseFeePerGas and false if not.
C30_InitializeProviderEnds ==
    /\ \A i \in DOMAIN lastCall.steps :
          lastCall.steps[i] \notin {<<"publish", NetworkWillChange>>,
                                    <<"publish", NetworkDidChange>>}
    /\ didChanges = 0
    /\ ( /\ lastCall.probe # 0
         /\ settled.fulfilled
         /\ settled.netId \in DecimalNetVersions
         /\ providerStore.type \in {"mainnet", "goerli"} )
       => /\ Published(lastCall.steps) = <<InfuraIsUnblocked>>
          /\ networkStatusStore = Available
          /\ networkIdStore = settled.netId
          /\ EIP1559(networkDetails)
                = IF settled.block = Block(FALSE, "0x1") THEN "true" ELSE "false"

\* On mainnet, the probe of initializeProvider received "1" and a block with
\* baseFeePerGas.
C30_Witness ==
    /\ "initializeProvider" \in everCalled
    /\ providerStore.type = "mainnet"
    /\ lastCall.probe # 0
    /\ settled = Fulfilled(<<"1">>, Block(FALSE, "0x1"))
    /\ Published(lastCall.steps) = <<InfuraIsUnblocked>>
    /\ networkStatusStore = Available
    /\ networkIdStore = <<"1">>
    /\ EIP1559(networkDetails) = "true"

\* The EIPS slots of a networkDetails value other than 1559
OtherSlots(details) ==
    [n \in DOMAIN details.EIPS \ {1559} |-> details.EIPS[n]]

\* The observable state but for networkDetails
SnapButDetails(m) == [Snap(m) EXCEPT !.networkDetails = <<>>]

\* C31: getEIP1559Compatibility called in any reachable state: when
\* EIPS[1559] is defined it returns it, sends no request and writes nothing;
\* when EIPS[1559] is undefined and there is no provider proxy it returns
\* false and writes nothing; otherwise it sends eth_getBlockByNumber, and
\* when the block arrives it returns true if the block has baseFeePerGas and
\* false if not, stores that in EIPS[1559], and leaves the other EIPS slots
\* and the rest of the state as they were.
C31_GetEIP1559Compatibility ==
    LET m == AtNextCall(Cur)
        r == getEIP1559Compatibility(m)
    IN /\ EIP1559(networkDetails) # Undefined =>
             /\ r.returns = EIP1559(networkDetails)
             /\ r.trace = <<>>
             /\ Snap(r) = Snap(m)
             /\ r.eipCalls = eipCalls
       /\ (EIP1559(networkDetails) = Undefined /\ _providerProxy = NoProxy) =>
             /\ r.returns = "false"
             /\ r.trace = <<>>
             /\ Snap(r) = Snap(m)
             /\ r.eipCalls = eipCalls
       /\ (EIP1559(networkDetails) = Undefined /\ _providerProxy # NoProxy) =>
             /\ Steps(r.trace) = << <<"request", "eth_getBlockByNumber">> >>
             /\ Snap(r) = Snap(m)
             /\ \A b \in LatestBlocks \cup {NoBlock} :
                   LET q == getEIP1559CompatibilityAfterAwait(
                                AtNextCall(r), Len(r.eipCalls), FALSE, b)
                       v == IF b = Block(FALSE, "0x1") THEN "true" ELSE "false"
                   IN /\ ~q.threw
                      /\ q.returns = v
                      /\ EIP1559(q.networkDetails) = v
                      /\ OtherSlots(q.networkDetails) = OtherSlots(networkDetails)
                      /\ SnapButDetails(q) = SnapButDetails(m)
                      /\ Steps(q.trace) = << <<"write", "networkDetails">> >>

\* A getEIP1559Compatibility call made with EIPS = {3675: true} received a
\* block without baseFeePerGas.
C31_Witness ==
    /\ lastCall.steps = << <<"write", "networkDetails">> >>
    /\ lastCall.probe = 0
    /\ eipCalls = <<>>
    /\ networkDetails = [EIPS |-> (1559 :> FALSE) @@ (3675 :> TRUE)]
    /\ networkStatusStore = Unknown

\* The call that led to r sent no request, subscribed no listener and
\* published no event.
SentNothing(m, r) ==
    /\ \A i \in DOMAIN r.trace : r.trace[i].kind \notin {"request", "subscribe", "publish"}
    /\ r.listeners = m.listeners
    /\ r.probes = m.probes
    /\ r.didChanges = m.didChanges
    /\ ~r.threw

\* networkId, networkStatus and networkDetails of a controller
DerivedOf(m) == <<m.networkIdStore, m.networkStatusStore, m.networkDetails>>

\* C32 as stated: lookupNetwork called with no provider proxy, or with a
\* provider configuration without chainId, resets networkId, networkStatus
\* and networkDetails and returns, having sent no request, subscribed no
\* listener and published no event.
C32_Original ==
    LET m == AtNextCall(Cur)
        r == lookupNetwork(m)
    IN (_providerProxy = NoProxy \/ providerStore.chainId \in {Undefined, ""}) =>
          /\ DerivedOf(r) = <<Null, Unknown, [EIPS |-> <<>>]>>
          /\ SentNothing(m, r)

\* C32: lookupNetwork called with no provider proxy returns without writing
\* any state; called with a provider proxy and a provider configuration
\* without chainId it resets networkId, networkStatus and networkDetails and
\* returns; in both cases it sends no request, subscribes no listener and
\* publishes no event.
C32_LookupNetworkAborts ==
    LET m == AtNextCall(Cur)
        r == lookupNetwork(m)
    IN /\ _providerProxy = NoProxy =>
             /\ Snap(r) = Snap(m)
             /\ Steps(r.trace) = << <<"warn", "missing provider">> >>
             /\ SentNothing(m, r)
       /\ (_providerProxy # NoProxy /\ providerStore.chainId \in {Undefined, ""}) =>
             /\ DerivedOf(r) = <<Null, Unknown, [EIPS |-> <<>>]>>
             /\ SnapButDetails([r EXCEPT !.networkIdStore = networkIdStore,
                                         !.networkStatusStore = networkStatusStore])
                  = SnapButDetails(m)
             /\ SentNothing(m, r)

\* initializeProvider installed a provider for a restored configuration
\* without chainId, and its lookupNetwork reset the restored networkDetails.
C32_Witness ==
    /\ _providerProxy # NoProxy
    /\ providerStore.chainId = Undefined
    /\ "state.networkDetails" \in everCalled
    /\ "initializeProvider" \in everCalled
    /\ "request" \notin everCalled
    /\ networkDetails = [EIPS |-> <<>>]
    /\ \E i \in DOMAIN lastCall.steps : lastCall.steps[i] = <<"warn", "missing chainId">>
    /\ probes = <<>>

\* C33: whichever switching method is called in whichever reachable state,
\* at the step that publishes NetworkWillChange the observable state is the
\* one the call started from: providerStore, previousProviderStore,
\* networkId, networkStatus, networkDetails and the targets of the two
\* proxies are unchanged.
C33_Original ==
    \A c \in SwitchCalls :
        LET r == Run(AtNextCall(Cur), c)
        IN \A i \in DOMAIN r.trace :
              (r.trace[i].kind = "publish" /\ r.trace[i].what = NetworkWillChange)
                 => r.trace[i].st = Snap(Cur)

\* C34: a listener registered through the block-tracker proxy, for an
\* event the proxy forwards, before a switching call that installs a block
\* tracker, receives after the call the events of the block tracker that
\* the call installed and none of the block tracker the proxy targeted
\* before; and in every reachable state a listener registered through the
\* proxy at any earlier time receives the events of the current block
\* tracker only.
C34_ListenersFollowTheSwitch ==
    /\ \A c \in SwitchCalls, name \in {n \in EventNames : skipInternal(n)} :
          LET r == Run(AtNextCall(Cur), c)
              heard == ListensTo(r, _blockTrackerProxy.id, _blockTrackerProxy.target, name)
          IN (_blockTrackerProxy # NoProxy /\ r.clients > clients) =>
                /\ heard = r._blockTracker
                /\ heard = r.clients
                /\ heard # _blockTracker
    /\ \A at \in 1..clients, name \in {n \in EventNames : skipInternal(n)} :
          proxiesCreated > 0 => ListensTo(Cur, 2, at, name) = _blockTracker

\* A second block tracker was installed by a switch and the listener
\* registered when the proxy targeted the first one hears the second.
C34_Witness ==
    /\ clients = 2
    /\ _blockTracker = 2
    /\ "switch" \in everCalled
    /\ Published(lastCall.steps) = <<NetworkWillChange, NetworkDidChange>>
    /\ \E i \in DOMAIN lastCall.steps : lastCall.steps[i] = <<"setTarget", "blockTracker">>
    /\ ListensTo(Cur, 2, 1, "latest") = 2

\* What a store subscriber sees at each write of a call that led to r:
\* Available only with a networkId
SubscribersSeeIdWhenAvailable(r) ==
    \A i \in DOMAIN r.trace :
        (r.trace[i].kind \in {"putState", "updateState"}
           /\ r.trace[i].st.networkStatus = Available)
          => r.trace[i].st.networkId # Null

\* C35 as stated: networkStatus Available implies networkId not null in
\* every reachable state and in every state a store subscriber sees inside
\* a store write of any call or resumption.
C35_Original ==
    /\ networkStatusStore = Available => networkIdStore # Null
    /\ \A c \in SyncCalls \cup Returns(Cur) :
          SubscribersSeeIdWhenAvailable(Run(AtNextCall(Cur), c))

\* C35: in every state reached when a call or a resumption has run to its
\* return or its await, networkStatus Available implies networkId not null.
C35_AvailableHasIdBetweenCalls ==
    networkStatusStore = Available => networkIdStore # Null

\* A probe's return wrote Available, then the networkId.
C35_Witness ==
    /\ FreshProbeReturned
    /\ networkStatusStore = Available
    /\ networkIdStore = <<"1">>
    /\ \E i, j \in DOMAIN lastCall.steps :
          /\ i < j
          /\ lastCall.steps[i] = <<"write", "networkStatus">>
          /\ lastCall.steps[j] = <<"write", "networkId">>

\* A switch has just returned and the getEIP1559Compatibility call numbered
\* c, made before it, still awaits the block it requested from the provider
\* installed then.
AwaitsSinceBeforeSwitch(c) ==
    /\ Published(lastCall.steps) = <<NetworkWillChange, NetworkDidChange>>
    /\ eipCalls[c].provider # _providerProxy.target

\* C36 as stated: a getEIP1559Compatibility call that awaits its block while
\* a switch occurs stores nothing in networkDetails when the block arrives
\* after the switch.
C36_Original ==
    \A c \in DOMAIN eipCalls, b \in LatestBlocks \cup {NoBlock} :
        AwaitsSinceBeforeSwitch(c) =>
            getEIP1559CompatibilityAfterAwait(AtNextCall(Cur), c, FALSE, b).networkDetails
               = networkDetails

\* C36: a getEIP1559Compatibility call that awaits its block stores its
\* result in EIPS[1559] when the block arrives, whether or not a switch
\* occurred during the await and the block comes from a provider that is no
\* longer installed; and EIPS[1559] is only ever given a value by such a
\* return or by the return of a lookupNetwork probe during whose await no
\* NetworkDidChange was published.
C36_CompatibilityIsStoredAfterSwitch ==
    /\ \A c \in DOMAIN eipCalls, b \in LatestBlocks \cup {NoBlock} :
          EIP1559(getEIP1559CompatibilityAfterAwait(AtNextCall(Cur), c, FALSE, b).networkDetails)
             = IF b = Block(FALSE, "0x1") THEN "true" ELSE "false"
    /\ (\E i \in DOMAIN lastCall.steps : lastCall.steps[i] = <<"write", "networkDetails">>) =>
          \/ /\ lastCall.probe # 0
             /\ ~probes[lastCall.probe].networkChanged
             /\ probes[lastCall.probe].didChangesAtStart = didChanges
          \/ /\ lastCall.probe = 0
             /\ lastCall.steps = << <<"write", "networkDetails">> >>

\* A switch has returned while a getEIP1559Compatibility call made on the
\* first provider awaits its block.
C36_Witness ==
    /\ eipCalls # <<>>
    /\ AwaitsSinceBeforeSwitch(1)
    /\ eipCalls[1].provider = 1
    /\ _provider = 2
    /\ EIP1559(networkDetails) = Undefined

\* The NetworkWillChange and NetworkDidChange events among the steps of a
\* call, in order
RECURSIVE Changes(_)
Changes(steps) ==
    IF steps = <<>> THEN <<>>
    ELSE IF Head(steps) \in {<<"publish", NetworkWillChange>>, <<"publish", NetworkDidChange>>}
    THEN <<Head(steps)[2]>> \o Changes(Tail(steps))
    ELSE Changes(Tail(steps))

\* A provider can be built for the configuration: a built-in type, or rpc
\* with an rpcUrl.
Configurable(config) ==
    \/ config.type \in {"mainnet", "goerli"}
    \/ config.type = "rpc" /\ config.rpcUrl \notin {Undefined, ""}

\* C37 as stated: whatever state the constructor was given, every call
\* publishes either neither event or NetworkWillChange then NetworkDidChange,
\* once each.
C37_Original ==
    Changes(lastCall.steps) \in {<<>>, <<NetworkWillChange, NetworkDidChange>>}

\* C37: when the configuration in providerStore is one a provider can be
\* built for, as it is in every state reached from a construction with no
\* state.provider, the call that led to the state published either neither
\* event or NetworkWillChange then NetworkDidChange, once each; a call that
\* published NetworkWillChange alone is one that threw, for a configuration
\* that came from the state given to the constructor.
C37_WillThenDidWhenConfigurable ==
    /\ Configurable(providerStore) =>
          Changes(lastCall.steps) \in {<<>>, <<NetworkWillChange, NetworkDidChange>>}
    /\ "state.provider" \notin everCalled =>
          /\ Configurable(providerStore)
          /\ Configurable(previousProviderStore)
    /\ ~Configurable(providerStore) =>
          /\ Changes(lastCall.steps) \in {<<>>, <<NetworkWillChange>>}
          /\ Changes(lastCall.steps) # <<>> =>
                lastCall.steps[Len(lastCall.steps)] = <<"throw", "Error">>

\* From a construction with a restored custom network: a switch to a
\* built-in network, then a rollback to the restored network.
C37_Witness ==
    /\ {"state.provider", "switch"} \subseteq everCalled
    /\ providerStore.nickname = "restored"
    /\ previousProviderStore = providerStore
    /\ Len(probes) = 2 /\ probes[1].isInfura /\ ~probes[2].isInfura
    /\ Changes(lastCall.steps) = <<NetworkWillChange, NetworkDidChange>>
    /\ lastCall.steps[1] = <<"putState", "provider">>

\* The lookupNetwork calls that still await their requests
Awaiting == {p \in DOMAIN probes : ~probes[p].returned}

\* C38: the probe listeners subscribed to NetworkDidChange are listeners of
\* lookupNetwork calls that still await their requests, so they are at most
\* as many as these calls; and once every lookupNetwork call has returned,
\* stale or not, no probe listener is subscribed.
C38_ProbeListenersDoNotLeak ==
    /\ listeners \subseteq Awaiting
    /\ Cardinality(listeners) <= Cardinality(Awaiting)
    /\ AllReturned => listeners = {}

\* Two probes have returned, the first stale (its listener ran at the
\* switch), the second not (it unsubscribed at its return).
C38_Witness ==
    /\ Len(probes) = 2
    /\ AllReturned
    /\ probes[1].networkChanged
    /\ ~probes[2].networkChanged
    /\ listeners = {}
    /\ lastCall.probe # 0
    /\ \E i \in DOMAIN lastCall.steps :
          lastCall.steps[i] = <<"unsubscribe", NetworkDidChange>>

\* What createNetworkClient is to be called with for a configuration: the
\* type as network for a built-in network, the rpcUrl and chainId for rpc
BuiltFor(config) ==
    IF config.type \in {"mainnet", "goerli"}
    THEN [type |-> "infura", network |-> config.type,
          rpcUrl |-> Undefined, chainId |-> Undefined]
    ELSE [type |-> "custom", network |-> Undefined,
          rpcUrl |-> config.rpcUrl, chainId |-> config.chainId]

\* C39: in every reachable state in which a provider is installed and
\* providerStore holds a configuration a provider can be built for (as it
\* does in every state reached from such a configuration), the two proxies
\* target the provider and the block tracker of the same createNetworkClient
\* call, the last one made, that call was made with what providerStore
\* holds, and _provider and _blockTracker are those targets.
C39_InstalledPairMatchesConfig ==
    (_provider # 0 /\ Configurable(providerStore)) =>
        /\ _providerProxy.target = _blockTrackerProxy.target
        /\ _providerProxy.target = clients
        /\ _provider = _providerProxy.target
        /\ _blockTracker = _blockTrackerProxy.target
        /\ networkClient = BuiltFor(providerStore)

\* From a restored custom network: a second client, built for the custom
\* network that upsertNetworkConfiguration made active.
C39_Witness ==
    /\ "state.provider" \in everCalled
    /\ previousProviderStore.nickname = "restored"
    /\ providerStore.type = "rpc"
    /\ providerStore.rpcUrl = "https://foo/"
    /\ clients = 2
    /\ _provider = 2
    /\ _blockTrackerProxy.target = 2
    /\ networkClient.rpcUrl = "https://foo/"
    /\ networkClient.chainId = providerStore.chainId

\* C40: in every reachable state, an upsertNetworkConfiguration that does
\* not throw, with an rpcUrl that is the rpcUrl of a registry entry ignoring
\* case, leaves under that entry's id an entry with that id and the rpcUrl,
\* chainId, ticker, nickname and rpcPrefs of the call (undefined where the
\* call supplied none, whatever the entry held), and leaves the registry
\* with the same ids and every other entry as it was.
C40_UpsertReplacesTheEntry ==
    \A u \in RegistryUpserts :
        \A id \in DOMAIN networkConfigurationsStore :
            SameUrlIgnoringCase(networkConfigurationsStore[id].rpcUrl, u.nc.rpcUrl) =>
                LET r == upsertNetworkConfiguration(AtNextCall(Cur), u.nc, u.args)
                    after == r.networkConfigurationsStore
                IN ~r.threw =>
                      /\ DOMAIN after = DOMAIN networkConfigurationsStore
                      /\ after[id].id = id
                      /\ after[id].rpcUrl = u.nc.rpcUrl
                      /\ after[id].chainId = u.nc.chainId
                      /\ after[id].ticker = u.nc.ticker
                      /\ after[id].nickname = u.nc.nickname
                      /\ after[id].rpcPrefs = u.nc.rpcPrefs
                      /\ \A other \in DOMAIN after \ {id} :
                            after[other] = networkConfigurationsStore[other]

\* The entry made active as "https://Foo/" with a nickname and rpcPrefs has
\* been replaced by an upsert of "https://foo/" that supplied neither, the
\* registry holding a second entry.
C40_Witness ==
    /\ providerStore.rpcUrl = "https://Foo/"
    /\ providerStore.nickname = "nick"
    /\ providerStore.rpcPrefs = "https://explorer/"
    /\ providerStore.id \in DOMAIN networkConfigurationsStore
    /\ networkConfigurationsStore[providerStore.id].rpcUrl = "https://foo/"
    /\ networkConfigurationsStore[providerStore.id].nickname = Undefined
    /\ networkConfigurationsStore[providerStore.id].rpcPrefs = Undefined
    /\ Cardinality(DOMAIN networkConfigurationsStore) = 2
    /\ lastCall.steps = << <<"putState", "networkConfigurations">> >>

====
